---- MODULE Spec2Model ----
(***************************************************************************)
(* PrepareAA.py: the stage controller (__main__), the region partitioner,  *)
(* the freebayes fan-out (run_freebayes workers popping the shared         *)
(* `regions` list), merge_and_filter_vcfs, and the two metadata records    *)
(* (metadata_dict, sample_info_dict) with their flushes.                   *)
(*                                                                         *)
(* A file path is a sequence of tokens, so that str.endswith, basename and *)
(* splitext are computed on it; a region's interval is a pair of integers  *)
(* (the code keeps them as decimal strings "start-end").                   *)
(***************************************************************************)
EXTENDS Integers, Sequences, FiniteSets, TLC

VARIABLES
    argv,               \* sys.argv: the entry-point and method options the command line gives
    args,               \* the argparse namespace (PrepareAA.py:528), mutated by __main__
    env,                \* what the process finds outside itself (environment variables, files)
    pc,                 \* position of the controller thread in __main__
    status,             \* "running", "exit0", "exit1" (sys.exit(1)), "exit2" (parser.error)
                        \* or "error" (uncaught exception)
    metadata_dict,      \* PrepareAA.py:22
    sample_info_dict,   \* PrepareAA.py:23
    run_md_dumps,       \* the documents json.dump wrote in save_run_metadata (PrepareAA.py:443-444)
    sample_md_dumps,    \* the documents json.dump wrote at PrepareAA.py:845-846
    stages,             \* the stages the controller has executed, in order
    calls,              \* the collaborators and the functions of this file that the
                        \* controller thread has invoked, in order
    centromere_dict,    \* PrepareAA.py:706
    chr_sizes,          \* PrepareAA.py:707, an insertion-ordered dict: a sequence of <<key, value>>
    regions,            \* PrepareAA.py:711, the shared work list
    threadL,            \* PrepareAA.py:731, worker id -> its state
    fb_calls,           \* <<contig, arm>> -> number of freebayes invocations on that region
    vcf_dir,            \* the .vcf.gz files of freebayes_output_directory
    merged,             \* the artifacts merge_and_filter_vcfs has concatenated, in order
    amplified_interval_bed, \* PrepareAA.py:788/793
    cnslines,           \* the lines of the segment file convert_cnvkit_cnv_to_seeds opens (258)
    infile,             \* the lines of it not yet read
    outfile             \* the lines written to <base>_CNV_CALLS.bed (258, 267)

\* the variables of __main__ and of the fan-out
controller_vars ==
    <<argv, args, env, pc, status, metadata_dict, sample_info_dict, run_md_dumps,
      sample_md_dumps, stages, calls, centromere_dict, chr_sizes, regions,
      threadL, fb_calls, vcf_dir, merged, amplified_interval_bed>>

vars == <<argv, args, env, pc, status, metadata_dict, sample_info_dict, run_md_dumps,
          sample_md_dumps, stages, calls, centromere_dict, chr_sizes, regions,
          threadL, fb_calls, vcf_dir, merged, amplified_interval_bed,
          cnslines, infile, outfile>>

-----------------------------------------------------------------------------
(* Bounds of the model. *)

\* largest --nthreads explored (the fan-out starts that many workers)
MaxThreads == 2

\* number of autosomes of the modelled references (22 in the code's
\* pre_chr_str_names, PrepareAA.py:193)
NumAutosomes == 1

-----------------------------------------------------------------------------
(* Sequence helpers. *)

Range(s) == {s[i] : i \in 1..Len(s)}

Last(s) == s[Len(s)]

Front(s) == SubSeq(s, 1, Len(s) - 1)

\* str.endswith on token sequences
EndsWith(path, suffix) ==
    /\ Len(path) >= Len(suffix)
    /\ SubSeq(path, Len(path) - Len(suffix) + 1, Len(path)) = suffix

\* the permutations of a finite set, as sequences
Perms(S) ==
    {s \in [1..Cardinality(S) -> S] : \A i, j \in 1..Cardinality(S) : i # j => s[i] # s[j]}

\* a Python dict: a function with a growing domain
Put(d, k, v) == [x \in DOMAIN d \cup {k} |-> IF x = k THEN v ELSE d[x]]

EmptyDict == [x \in {} |-> ""]

-----------------------------------------------------------------------------
(* Reference data: the two files __main__ reads at PrepareAA.py:706-707. *)

\* the names merge_and_filter_vcfs visits, PrepareAA.py:193
pre_chr_str_names == [x \in 1..NumAutosomes |-> ToString(x)] \o <<"X", "Y">>

\* "chr"-prefixed naming is used by every reference but GRCh37 (PrepareAA.py:197)
ChrPrefixed(ref) == ref # "GRCh37" /\ ref # "GRCm38"

ContigName(ref, x) == IF ChrPrefixed(ref) THEN "chr" \o x ELSE x

MitoName(ref) == IF ChrPrefixed(ref) THEN "chrM" ELSE "MT"

\* one row of a .fai index: contig name and length
FaiRow(name, len) == [name |-> name, len |-> len]

\* one row of a centromere .bed annotation
BedRow(chrom, s, e, label) == [chrom |-> chrom, start |-> s, end |-> e, label |-> label]

\* A human reference as laid out in the data repo: every chromosome has one,
\* two or three centromeric rows (and a row of another band, which the reader
\* skips); the mitochondrial contig has none.
HumanFai(ref) ==
    [i \in 1..Len(pre_chr_str_names) |->
        FaiRow(ContigName(ref, pre_chr_str_names[i]), 400000 + 1000 * i)]
    \o <<FaiRow(MitoName(ref), 16569)>>

CenRows(chrom, n) ==
    SubSeq(<<BedRow(chrom, 100000, 110000, "acen"),
             BedRow(chrom, 110000, 125000, "acen"),
             BedRow(chrom, 90000, 100000, "centromere")>>, 1, n)

RECURSIVE HumanCenFrom(_, _)
HumanCenFrom(ref, i) ==
    IF i > Len(pre_chr_str_names) THEN <<>>
    ELSE LET c == ContigName(ref, pre_chr_str_names[i])
         IN  <<BedRow(c, 0, 90000, "gneg")>> \o CenRows(c, 1 + (i % 3))
                \o HumanCenFrom(ref, i + 1)

HumanCen(ref) == HumanCenFrom(ref, 1)

\* The mouse reference mm10 (refFnames, PrepareAA.py:596, and fnameD, 381-382):
\* its contigs carry the prefix "chr" and it has fewer autosomes than the
\* human references (19 against 22).
mouse_chr_names == [x \in 1..(NumAutosomes - 1) |-> ToString(x)] \o <<"X", "Y">>

MouseFai ==
    [i \in 1..Len(mouse_chr_names) |-> FaiRow("chr" \o mouse_chr_names[i], 300000 + 1000 * i)]
    \o <<FaiRow("chrM", 16299)>>

MouseCen ==
    [i \in 1..(2 * Len(mouse_chr_names)) |->
        LET c == "chr" \o mouse_chr_names[(i + 1) \div 2]
        IN  IF i % 2 = 1 THEN BedRow(c, 110000, 120000, "centromere")
            ELSE BedRow(c, 120000, 130000, "acen")]

\* the same index with its rows in another order
Reorder(rows, perm) == [i \in 1..Len(rows) |-> rows[perm[i]]]

\* Reference files that are not laid out like a human reference: a contig
\* without any centromeric row, a centromere for a contig the index lacks, a
\* centromere whose padded span leaves the contig, an index of one contig.
OddRefs(ref) ==
    LET c1 == ContigName(ref, "1")
        cX == ContigName(ref, "X")
        m  == MitoName(ref)
    IN  { [fai |-> <<FaiRow(c1, 300000), FaiRow(cX, 200000), FaiRow(m, 16569)>>,
           cen |-> <<BedRow(c1, 100000, 120000, "acen"), BedRow("chrUn", 5, 9, "acen")>>],
          [fai |-> <<FaiRow(m, 16569), FaiRow(c1, 130000)>>,
           cen |-> <<BedRow(c1, 10000, 60000, "acen"), BedRow(c1, 60000, 120000, "acen")>>],
          [fai |-> <<FaiRow(m, 16569)>>,
           cen |-> <<>>] }

\* every order of the index rows of the human reference
HumanRefs(ref) ==
    { [fai |-> Reorder(HumanFai(ref), p), cen |-> HumanCen(ref)] :
        p \in Perms(1..Len(HumanFai(ref))) }

\* get_ref_sizes, PrepareAA.py:368-376: key -> length - 1, in file order
get_ref_sizes(fai) == [i \in 1..Len(fai) |-> <<fai[i].name, fai[i].len - 1>>]

\* the padding of get_ref_centromeres, PrepareAA.py:394-395
CentromerePad == 20000

\* one row of get_ref_centromeres' loop, PrepareAA.py:385-395
CentromereStep(d, row) ==
    IF row.label \notin {"centromere", "acen"} THEN d
    ELSE IF row.chrom \notin DOMAIN d THEN Put(d, row.chrom, <<row.start, row.end>>)
    ELSE LET pmin == IF d[row.chrom][1] < row.start THEN d[row.chrom][1] ELSE row.start
             pmax == IF d[row.chrom][2] > row.end THEN d[row.chrom][2] ELSE row.end
         IN  Put(d, row.chrom, <<pmin - CentromerePad, pmax + CentromerePad>>)

RECURSIVE CentromereFold(_, _)
CentromereFold(d, rows) ==
    IF rows = <<>> THEN d
    ELSE CentromereFold(CentromereStep(d, Head(rows)), Tail(rows))

\* get_ref_centromeres, PrepareAA.py:379-397
get_ref_centromeres(rows) == CentromereFold([x \in {} |-> <<0, 0>>], rows)

-----------------------------------------------------------------------------
(* Region partitioner, PrepareAA.py:711-720. *)

\* a region is the tuple (contig, "start-end", arm) of the code
Region(key, s, e, arm) == [key |-> key, start |-> s, end |-> e, arm |-> arm]

\* a q arm that starts where the p arm ends
RegionsOf_touching(cdict, item) ==
    IF item[1] \in DOMAIN cdict
    THEN <<Region(item[1], 0, cdict[item[1]][1], "p"),
           Region(item[1], cdict[item[1]][1], item[2], "q")>>
    ELSE <<Region(item[1], 0, item[2], "")>>

\* a contig without centromere handled like an arm
RegionsOf_noexcept(cdict, item) ==
    IF item[1] \in DOMAIN cdict
    THEN <<Region(item[1], 0, cdict[item[1]][1], "p"),
           Region(item[1], cdict[item[1]][2], item[2], "q")>>
    ELSE <<Region(item[1], 0, item[2], "p")>>

\* the regions of one (key, value) item of chr_sizes
RegionsOf(cdict, item) ==
    IF item[1] \in DOMAIN cdict
    THEN <<Region(item[1], 0, cdict[item[1]][1], "p"),
           Region(item[1], cdict[item[1]][2], item[2], "q")>>
    ELSE <<Region(item[1], 0, item[2], "")>>

RECURSIVE Partition(_, _)
Partition(cdict, sizes) ==
    IF sizes = <<>> THEN <<>>
    ELSE RegionsOf(cdict, Head(sizes)) \o Partition(cdict, Tail(sizes))

-----------------------------------------------------------------------------
(* The command line, PrepareAA.py:453-528. *)

NoPath == <<>>

\* args.output_directory and args.sample_name (a sample name may hold "_")
outdir == "out/"
sname == "s_1"
\* sname.rsplit("_")
sname_parts == <<"s", "1">>

UserBam == <<"in/", "tumor", ".bam">>

\* what --cnv_bed may name: a bed of CNV calls, a CNVkit segment file, a seed
\* file and a pre-filtered file of an earlier run
UserBeds ==
    { <<"in/", "calls", ".bed">>,
      <<"in/", "calls", ".cns">>,
      <<"in/", "s", "_AA_CNV_SEEDS", ".bed">>,
      <<"in/", "calls", "_CNV_CALLS", "_pre_filtered", ".bed">> }

Entries == {"fastqs", "sorted_bam", "completed_AA_runs"}

Methods == {"reuse_canvas", "cnv_bed", "canvas_dir", "cnvkit_dir",
            "completed_run_metadata", "align_only"}

Refs == {"", "GRCh38", "GRCh37", "mm10"}

\* The namespace parse_args returns when the first mutually exclusive group
\* (PrepareAA.py:509-513) holds `entry` and the second (514-524) holds `method`:
\* argparse rejects a command line with none or with two of a group.
Namespace(entry, method, bed, f) ==
    [ sample_name_is_path |-> f.slash,
      fastqs |-> entry = "fastqs",
      sorted_bam |-> IF entry = "sorted_bam" THEN UserBam ELSE NoPath,
      completed_AA_runs |-> entry = "completed_AA_runs",
      reuse_canvas |-> method = "reuse_canvas",
      cnv_bed |-> IF method = "cnv_bed" THEN bed ELSE NoPath,
      canvas_dir |-> method = "canvas_dir",
      cnvkit_dir |-> method = "cnvkit_dir",
      completed_run_metadata |->
          IF method = "completed_run_metadata" THEN <<"in/", "meta", ".json">> ELSE NoPath,
      align_only |-> method = "align_only",
      run_AA |-> f.run_AA,
      run_AC |-> f.run_AC,
      no_filter |-> f.no_filter,
      vcf |-> f.vcf,
      ploidy |-> f.ploidy,
      rscript_path |-> f.rscript_path,
      ref |-> f.ref,
      nthreads |-> f.nthreads ]

\* what --rscript_path may name: the directory of Rscript or Rscript itself
RscriptPaths == { <<"opt/R">>, <<"opt/R", "/Rscript">> }

Flags ==
    [ slash : BOOLEAN, run_AA : BOOLEAN, run_AC : BOOLEAN, no_filter : BOOLEAN,
      vcf : BOOLEAN, ploidy : BOOLEAN, rscript_path : RscriptPaths \cup {NoPath},
      ref : Refs, nthreads : 1..MaxThreads ]

\* The command lines explored. Options a run never reads are left at their
\* defaults (--vcf without --canvas_dir, --ploidy without a CNVkit input,
\* --rscript_path without --cnvkit_dir), a
\* sample name that is a path is tried on one command line per entry point,
\* and more than one worker thread is tried where the fan-out runs, with the
\* options read after it left off.
Explored(entry, method, bed, f) ==
    /\ (method = "cnv_bed") \/ bed = NoPath
    /\ (method = "cnv_bed") => bed \in UserBeds
    /\ f.vcf => method = "canvas_dir"
    /\ f.ploidy => method \in {"cnvkit_dir", "cnv_bed"}
    /\ f.rscript_path # NoPath =>
          /\ entry = "sorted_bam" /\ method = "cnvkit_dir"
          /\ ~f.run_AA /\ ~f.run_AC /\ ~f.no_filter /\ f.ref = "GRCh38"
    /\ f.slash => /\ method = "cnv_bed" /\ bed = <<"in/", "calls", ".bed">>
                  /\ ~f.run_AA /\ ~f.run_AC /\ ~f.no_filter /\ f.ref = "GRCh38"
    /\ f.ref = "GRCh37" => method \in {"canvas_dir", "cnv_bed"}
    /\ f.ref = "mm10" =>
          /\ entry = "sorted_bam" /\ method = "canvas_dir" /\ ~f.vcf
          /\ ~f.run_AA /\ ~f.run_AC /\ ~f.no_filter /\ f.nthreads = 1
    /\ f.nthreads > 1 =>
          /\ entry = "sorted_bam" /\ method = "canvas_dir" /\ ~f.vcf
          /\ ~f.run_AA /\ ~f.run_AC /\ f.ref # ""

CommandLines ==
    { Namespace(entry, method, bed, f) :
        <<entry, method, bed, f>> \in
            { t \in Entries \X Methods \X (UserBeds \cup {NoPath}) \X Flags :
                Explored(t[1], t[2], t[3], t[4]) } }

\* the options of the two groups that a namespace holds as given
Given(a) ==
    (IF a.fastqs THEN {"fastqs"} ELSE {})
    \cup (IF a.sorted_bam # NoPath THEN {"sorted_bam"} ELSE {})
    \cup (IF a.completed_AA_runs THEN {"completed_AA_runs"} ELSE {})
    \cup (IF a.reuse_canvas THEN {"reuse_canvas"} ELSE {})
    \cup (IF a.cnv_bed # NoPath THEN {"cnv_bed"} ELSE {})
    \cup (IF a.canvas_dir THEN {"canvas_dir"} ELSE {})
    \cup (IF a.cnvkit_dir THEN {"cnvkit_dir"} ELSE {})
    \cup (IF a.completed_run_metadata # NoPath THEN {"completed_run_metadata"} ELSE {})
    \cup (IF a.align_only THEN {"align_only"} ELSE {})

\* a parser whose second group is not exclusive
parse_args_anymethod(given) ==
    Cardinality(given \cap Entries) = 1 /\ given \cap Methods # {}

\* parse_args (PrepareAA.py:528) accepts the command line: each of the two
\* groups (509-513, 514-524) is required and mutually exclusive
parse_args(given) ==
    Cardinality(given \cap Entries) = 1 /\ Cardinality(given \cap Methods) = 1

\* a command line with one entry-point option and one method option
OneOfEach(g) == \E e \in Entries, m \in Methods : g = {e, m}

\* the options a command line of another shape is tried with
RejectedFlags ==
    [slash |-> FALSE, run_AA |-> TRUE, run_AC |-> TRUE, no_filter |-> FALSE,
     vcf |-> FALSE, ploidy |-> FALSE, rscript_path |-> NoPath, ref |-> "GRCh38",
     nthreads |-> 1]

\* Command lines with none or several options of a group: up to three
\* options of the two groups together.
RejectedLines ==
    { [ sample_name_is_path |-> FALSE,
        fastqs |-> "fastqs" \in g,
        sorted_bam |-> IF "sorted_bam" \in g THEN UserBam ELSE NoPath,
        completed_AA_runs |-> "completed_AA_runs" \in g,
        reuse_canvas |-> "reuse_canvas" \in g,
        cnv_bed |-> IF "cnv_bed" \in g THEN <<"in/", "calls", ".bed">> ELSE NoPath,
        canvas_dir |-> "canvas_dir" \in g,
        cnvkit_dir |-> "cnvkit_dir" \in g,
        completed_run_metadata |->
            IF "completed_run_metadata" \in g THEN <<"in/", "meta", ".json">> ELSE NoPath,
        align_only |-> "align_only" \in g,
        run_AA |-> RejectedFlags.run_AA,
        run_AC |-> RejectedFlags.run_AC,
        no_filter |-> RejectedFlags.no_filter,
        vcf |-> RejectedFlags.vcf,
        ploidy |-> RejectedFlags.ploidy,
        rscript_path |-> RejectedFlags.rscript_path,
        ref |-> RejectedFlags.ref,
        nthreads |-> RejectedFlags.nthreads ] :
        g \in {x \in SUBSET (Entries \cup Methods) : Cardinality(x) <= 3 /\ ~OneOfEach(x)} }

-----------------------------------------------------------------------------
(* The environment of the process. One thing at most is wrong with it. *)

\* a collaborator that fails: subprocess.call returns its non-zero status
ToolFaults == {"fail_freebayes", "fail_cnvkit", "fail_amplified_intervals",
               "fail_AA", "fail_AC"}

\* "no_version": no version query of a collaborator gives a version
EnvFaults == {"no_AA_DATA_REPO", "no_AA_SRC", "ref_undetermined", "no_ref_dir",
              "no_repo_files", "no_canvas_dir", "no_cnv_bed_file", "no_AC_SRC",
              "no_version"}
             \cup ToolFaults

\* the faults whose check the command line can reach
Reads(a, e) ==
    CASE e = "ref_undetermined" -> a.sorted_bam # NoPath
      [] e = "no_canvas_dir" -> a.canvas_dir
      [] e = "no_cnv_bed_file" -> a.cnv_bed # NoPath
      [] e = "no_AC_SRC" -> a.completed_AA_runs \/ (a.run_AA /\ a.run_AC)
      [] e = "fail_freebayes" -> a.canvas_dir /\ ~a.vcf /\ ~a.completed_AA_runs
      [] e = "fail_cnvkit" -> a.cnvkit_dir /\ ~a.completed_AA_runs
      [] e = "fail_amplified_intervals" -> ~a.no_filter /\ ~a.completed_AA_runs
      [] e = "fail_AA" -> a.run_AA /\ ~a.completed_AA_runs
      [] e = "fail_AC" -> a.completed_AA_runs \/ (a.run_AA /\ a.run_AC)
      [] OTHER -> TRUE

\* does this run go through the fan-out with more than one order of the index
WideRun(a) ==
    a.canvas_dir /\ ~a.vcf /\ a.sorted_bam # NoPath /\ ~a.run_AA /\ ~a.run_AC /\ ~a.no_filter

\* The file a collaborator was to write, which the controller then opens: it
\* is there when the collaborator succeeded, and may or may not be there when
\* it returned a non-zero status.
OutputExists(fault) == IF env = fault THEN BOOLEAN ELSE {TRUE}

\* Popen([interpreter, script, "--version"]).communicate() of PrepareAA.py:137,
\* 306, 341 and 418: the text the collaborator reports; when the query fails,
\* nothing at all (the script exits without output) or an OSError raised by
\* Popen (the interpreter is not found)
PopenVersion(tool) ==
    IF env = "no_version" THEN {"", "OSError"} ELSE {tool \o " version"}

\* the reference files a run may find in the data repo
RefInputs(a) ==
    IF a.ref = "mm10" THEN {[fai |-> MouseFai, cen |-> MouseCen]}
    ELSE IF WideRun(a) THEN HumanRefs(a.ref) \cup OddRefs(a.ref)
    ELSE {[fai |-> HumanFai(a.ref), cen |-> HumanCen(a.ref)]}

-----------------------------------------------------------------------------
(* Initial state: module load (PrepareAA.py:19-23) and parse_args (528). *)

NoThreads == [i \in {} |-> [state |-> "unstarted"]]

Init ==
    /\ args \in CommandLines \cup RejectedLines
    /\ argv = Given(args)
    /\ env \in {e \in EnvFaults \cup {"ok"} :
                    /\ Reads(args, e)
                    /\ args.sample_name_is_path => e = "ok"
                    /\ args.nthreads > 1 =>
                          e = "ok" \/ (e = "fail_freebayes" /\ args.no_filter)
                    /\ e \in ToolFaults \cup {"no_version"} =>
                          ~(args.canvas_dir /\ ~args.vcf /\ ~args.run_AA /\ ~args.run_AC
                            /\ ~args.no_filter)
                    /\ ~OneOfEach(Given(args)) => e \in {"ok", "no_AA_DATA_REPO"}}
    /\ pc = "startup"
    /\ status = "running"
    /\ metadata_dict = EmptyDict
    /\ sample_info_dict = EmptyDict
    /\ run_md_dumps = <<>>
    /\ sample_md_dumps = <<>>
    /\ stages = <<>>
    /\ calls = <<>>
    /\ centromere_dict = [x \in {} |-> <<0, 0>>]
    /\ chr_sizes = <<>>
    /\ regions = <<>>
    /\ threadL = NoThreads
    /\ fb_calls = [r \in {} |-> 0]
    /\ vcf_dir = {}
    /\ merged = <<>>
    /\ amplified_interval_bed = NoPath
    /\ cnslines = <<>>
    /\ infile = <<>>
    /\ outfile = <<>>

\* the process ends: sys.exit(code), an uncaught exception, or the end of __main__
Halt(how) == pc' = "done" /\ status' = how

-----------------------------------------------------------------------------
(* parse_args and the start-up checks, PrepareAA.py:528-672. *)

\* what check_reference.check_ref makes of the BAM (617): the reference it matches
determined_ref(a, e) ==
    IF e \in {"ref_undetermined", "no_ref_dir"} THEN ""
    ELSE IF a.ref # "" THEN a.ref ELSE "GRCh38"

\* args.ref once lines 608-625 have run
ResolvedRef(a, e) ==
    IF a.sorted_bam # NoPath /\ a.ref = "" THEN determined_ref(a, e) ELSE a.ref

\* How start-up ends: "exit2" at the parser's error, "exit1" at a sys.exit(1),
\* "error" at an uncaught exception, "ok" when line 672 is reached. The checks
\* are in the code's order.
StartupOutcome(a, e) ==
    CASE ~parse_args(Given(a)) -> "exit2"                                 \* 528
      [] a.sample_name_is_path -> "exit1"                                 \* 544-546
      [] e = "no_AA_DATA_REPO" -> "exit1"                                 \* 559-564
      [] e = "no_AA_SRC" -> "exit1"                                       \* 572-577
      [] (a.fastqs \/ a.completed_AA_runs) /\ a.ref = "" -> "exit1"       \* 579-581
      [] a.sorted_bam # NoPath /\ a.ref # "" /\ e = "no_ref_dir" -> "error"   \* 610
      [] a.sorted_bam # NoPath /\ a.ref = "" /\ determined_ref(a, e) = "" -> "exit1"  \* 618-619
      [] e = "no_ref_dir" -> "error"                                      \* 628
      [] e = "no_repo_files" -> "exit1"                                   \* 633-636
      [] a.cnv_bed = NoPath /\ a.canvas_dir /\ e = "no_canvas_dir" -> "exit1"  \* 639-642
      [] ~a.canvas_dir /\ a.cnv_bed # NoPath /\ e = "no_cnv_bed_file" -> "exit1"  \* 655-657
      [] OTHER -> "ok"

\* a pipeline that never aligns
FirstBlock_noalign(a) == IF ~a.completed_AA_runs THEN "index_qc" ELSE "classify_completed"

\* a pipeline whose alignment blocks are entered by every run without reads
FirstBlock_noskip(a) == IF a.fastqs THEN "run_bwa" ELSE "index_qc"

\* the first block of the pipeline a run enters, PrepareAA.py:674, 680, 828
FirstBlock(a) ==
    IF a.fastqs THEN "run_bwa"
    ELSE IF ~a.completed_AA_runs THEN "index_qc"
    ELSE "classify_completed"

Startup ==
    /\ pc = "startup"
    /\ LET how == StartupOutcome(args, env)
       IN  IF how = "ok"
           THEN /\ args' = [args EXCEPT !.ref = ResolvedRef(args, env)]
                /\ sample_info_dict' = Put(sample_info_dict, "sample_name", sname)
                /\ pc' = FirstBlock(args)
                /\ status' = status
           ELSE /\ Halt(how)
                /\ UNCHANGED <<args, sample_info_dict>>
    /\ UNCHANGED <<argv, env, cnslines, infile, outfile, metadata_dict, run_md_dumps, sample_md_dumps, stages, calls,
                   centromere_dict, chr_sizes, regions, threadL, fb_calls, vcf_dir,
                   merged, amplified_interval_bed>>

-----------------------------------------------------------------------------
(* ALIGN and INDEX/QC, PrepareAA.py:674-705. *)

\* run_bwa, PrepareAA.py:38-76, called at 674-678
RunBwa ==
    /\ pc = "run_bwa"
    /\ calls' = calls \o <<"bwa mem", "samtools rmdup", "samtools index">>
    /\ metadata_dict' = Put(metadata_dict, "bwa_cmd", "bwa mem")
    /\ args' = [args EXCEPT !.sorted_bam = <<outdir, sname, ".cs.rmdup", ".bam">>]
    /\ stages' = Append(stages, "ALIGN")
    /\ pc' = IF ~args.completed_AA_runs THEN "index_qc" ELSE "classify_completed"
    /\ UNCHANGED <<argv, env, cnslines, infile, outfile, status, sample_info_dict, run_md_dumps, sample_md_dumps,
                   centromere_dict, chr_sizes, regions, threadL, fb_calls, vcf_dir,
                   merged, amplified_interval_bed>>

\* INDEX/QC without the stop point
IndexQC_nostop ==
    /\ pc = "index_qc"
    /\ calls' = Append(calls, "check_properly_paired")
    /\ stages' = Append(stages, "INDEX/QC")
    /\ pc' = "load_ref" /\ status' = status
    /\ UNCHANGED <<args, argv, env, cnslines, infile, outfile, metadata_dict, sample_info_dict, run_md_dumps,
                   sample_md_dumps, centromere_dict, chr_sizes, regions, threadL,
                   fb_calls, vcf_dir, merged, amplified_interval_bed>>

\* INDEX/QC with a stop point that dumps the run record before it exits
IndexQC_flush ==
    /\ pc = "index_qc"
    /\ calls' = Append(calls, "check_properly_paired")
    /\ stages' = Append(stages, "INDEX/QC")
    /\ IF args.align_only
       THEN Halt("exit0") /\ run_md_dumps' = Append(run_md_dumps, metadata_dict)
       ELSE pc' = "load_ref" /\ status' = status /\ run_md_dumps' = run_md_dumps
    /\ UNCHANGED <<args, argv, env, cnslines, infile, outfile, metadata_dict, sample_info_dict,
                   sample_md_dumps, centromere_dict, chr_sizes, regions, threadL,
                   fb_calls, vcf_dir, merged, amplified_interval_bed>>

\* index and QC of the BAM, then the align-only stop point, PrepareAA.py:680-705
IndexQC ==
    /\ pc = "index_qc"
    /\ calls' = Append(calls, "check_properly_paired")
    /\ stages' = Append(stages, "INDEX/QC")
    /\ IF args.align_only
       THEN Halt("exit0")                                                 \* 697-703
       ELSE pc' = "load_ref" /\ status' = status
    /\ UNCHANGED <<args, argv, env, cnslines, infile, outfile, metadata_dict, sample_info_dict, run_md_dumps,
                   sample_md_dumps, centromere_dict, chr_sizes, regions, threadL,
                   fb_calls, vcf_dir, merged, amplified_interval_bed>>

\* get_ref_centromeres and get_ref_sizes read the data repo, PrepareAA.py:706-707
LoadReference ==
    /\ pc = "load_ref"
    /\ \E rd \in RefInputs(args) :
          /\ centromere_dict' = get_ref_centromeres(rd.cen)
          /\ chr_sizes' = get_ref_sizes(rd.fai)
    /\ pc' = "cnv_call"
    /\ UNCHANGED <<args, argv, env, cnslines, infile, outfile, status, metadata_dict, sample_info_dict, run_md_dumps,
                   sample_md_dumps, stages, calls, regions, threadL, fb_calls,
                   vcf_dir, merged, amplified_interval_bed>>

-----------------------------------------------------------------------------
(* CNV_CALL with Canvas: partition, freebayes fan-out, merge. *)

\* the first action of the branch `if runCNV == "Canvas"`, PrepareAA.py:709-729
CanvasPartition ==
    /\ pc = "cnv_call"
    /\ args.canvas_dir
    /\ regions' = Partition(centromere_dict, chr_sizes)
    /\ fb_calls' = [r \in Range(regions') |-> 0]
    /\ stages' = Append(stages, "CNV_CALL")
    /\ IF ~args.vcf
       THEN /\ calls' = Append(calls, "freebayes --version")
            /\ pc' = "spawn"
       ELSE /\ calls' = calls
            /\ pc' = "run_canvas"
    /\ UNCHANGED <<args, argv, env, cnslines, infile, outfile, status, metadata_dict, sample_info_dict, run_md_dumps,
                   sample_md_dumps, centromere_dict, chr_sizes, threadL, vcf_dir,
                   merged, amplified_interval_bed>>

\* one iteration of the loop that creates and starts the workers, PrepareAA.py:731-735
SpawnThread ==
    /\ pc = "spawn"
    /\ Len(threadL) < args.nthreads
    /\ threadL' = Append(threadL, [state |-> "pop", cur |-> <<>>])
    /\ pc' = IF Len(threadL) + 1 = args.nthreads THEN "join" ELSE "spawn"
    /\ UNCHANGED <<args, argv, env, cnslines, infile, outfile, status, metadata_dict, sample_info_dict, run_md_dumps,
                   sample_md_dumps, stages, calls, centromere_dict, chr_sizes, regions,
                   fb_calls, vcf_dir, merged, amplified_interval_bed>>

\* a pop that waits on the empty list instead of ending the worker
WorkerPop_wait(i) ==
    /\ threadL[i].state = "pop"
    /\ regions # <<>>
    /\ threadL' = [threadL EXCEPT ![i] = [state |-> "call", cur |-> <<Last(regions)>>]]
    /\ regions' = Front(regions)
    /\ UNCHANGED <<args, argv, env, cnslines, infile, outfile, pc, status, metadata_dict, sample_info_dict, run_md_dumps,
                   sample_md_dumps, stages, calls, centromere_dict, chr_sizes,
                   fb_calls, vcf_dir, merged, amplified_interval_bed>>

\* A pop that is not one step: worker i reads the tail of the list that another
\* worker has read and not yet removed, so both hold the same region.
WorkerPop_racy(i) ==
    /\ threadL[i].state = "pop"
    /\ \/ /\ regions = <<>>
          /\ threadL' = [threadL EXCEPT ![i].state = "done"]
          /\ regions' = regions
       \/ /\ regions # <<>>
          /\ threadL' = [threadL EXCEPT ![i] = [state |-> "call", cur |-> <<Last(regions)>>]]
          /\ regions' = Front(regions)
       \/ \E j \in 1..Len(threadL) :
             /\ j # i /\ threadL[j].state = "call"
             /\ threadL' = [threadL EXCEPT ![i] = [state |-> "call", cur |-> threadL[j].cur]]
             /\ regions' = regions
    /\ UNCHANGED <<args, argv, env, cnslines, infile, outfile, pc, status, metadata_dict, sample_info_dict, run_md_dumps,
                   sample_md_dumps, stages, calls, centromere_dict, chr_sizes,
                   fb_calls, vcf_dir, merged, amplified_interval_bed>>

\* regions.pop() of worker i, PrepareAA.py:86-90: list.pop takes the last
\* element and is one step of the interpreter; IndexError ends the worker
WorkerPop(i) ==
    /\ threadL[i].state = "pop"
    /\ IF regions = <<>>
       THEN /\ threadL' = [threadL EXCEPT ![i].state = "done"]
            /\ regions' = regions
       ELSE /\ threadL' = [threadL EXCEPT ![i] = [state |-> "call", cur |-> <<Last(regions)>>]]
            /\ regions' = Front(regions)
    /\ UNCHANGED <<args, argv, env, cnslines, infile, outfile, pc, status, metadata_dict, sample_info_dict, run_md_dumps,
                   sample_md_dumps, stages, calls, centromere_dict, chr_sizes,
                   fb_calls, vcf_dir, merged, amplified_interval_bed>>

\* an artifact named after the contig alone
VcfParts_noarm(r) == sname_parts \o <<r.key, "">>

\* the name of a region's artifact split on "_", PrepareAA.py:94 and 101:
\* outdir + sname + "_" + contig + "_" + arm + ".vcf", then gzip
VcfParts(r) == sname_parts \o <<r.key, r.arm>>

\* freebayes and gzip on the region worker i holds, PrepareAA.py:92-101. The
\* return values of both calls are dropped; the shell creates the target of
\* the redirect `> vcf_file` before the pipeline runs and gzip compresses it,
\* so the artifact is there whatever status freebayes returns.
WorkerCall(i) ==
    /\ threadL[i].state = "call"
    /\ LET r == threadL[i].cur[1]
       IN  /\ fb_calls' = [fb_calls EXCEPT ![r] = @ + 1]
           /\ vcf_dir' = vcf_dir \cup {VcfParts(r)}
    /\ threadL' = [threadL EXCEPT ![i] = [state |-> "pop", cur |-> <<>>]]
    /\ UNCHANGED <<args, argv, env, cnslines, infile, outfile, pc, status, metadata_dict, sample_info_dict, run_md_dumps,
                   sample_md_dumps, stages, calls, centromere_dict, chr_sizes, regions,
                   merged, amplified_interval_bed>>

\* a join of the first worker only
JoinThreads_first ==
    /\ pc = "join"
    /\ threadL[1].state = "done"
    /\ pc' = "merge"
    /\ UNCHANGED <<args, argv, env, cnslines, infile, outfile, status, metadata_dict, sample_info_dict, run_md_dumps,
                   sample_md_dumps, stages, calls, centromere_dict, chr_sizes, regions,
                   threadL, fb_calls, vcf_dir, merged, amplified_interval_bed>>

\* the loop of t.join(), PrepareAA.py:737-738: it ends once every worker has ended
JoinThreads ==
    /\ pc = "join"
    /\ \A i \in 1..Len(threadL) : threadL[i].state = "done"
    /\ pc' = "merge"
    /\ UNCHANGED <<args, argv, env, cnslines, infile, outfile, status, metadata_dict, sample_info_dict, run_md_dumps,
                   sample_md_dumps, stages, calls, centromere_dict, chr_sizes, regions,
                   threadL, fb_calls, vcf_dir, merged, amplified_interval_bed>>

\* f.rsplit(".vcf.gz")[0].rsplit("_")[-2:] joined, PrepareAA.py:189-190
ChromKey(f) == f[Len(f) - 1] \o f[Len(f)]

\* relevant_vcfs, PrepareAA.py:186
relevant_vcfs(chr_names, vcf_list) ==
    {f \in vcf_list : \E i \in chr_names : \E j \in 1..Len(f) : f[j] = i}

\* chrom_vcf_d, PrepareAA.py:187-190
chrom_vcf_d(files) ==
    [k \in {ChromKey(f) : f \in files} |-> CHOOSE f \in files : ChromKey(f) = k]

\* sorted_chr_names, PrepareAA.py:197-203
sorted_chr_names(ref) ==
    [i \in 1..Len(pre_chr_str_names) |->
        IF ChrPrefixed(ref) THEN "chr" \o pre_chr_str_names[i] ELSE pre_chr_str_names[i]]

\* a merge that visits the contigs in the order of chr_names instead
MergeKeys_unsorted(ref) ==
    LET names == SelectSeq([i \in 1..Len(chr_sizes) |-> chr_sizes[i][1]],
                           LAMBDA c : c # MitoName(ref))
    IN  <<MitoName(ref)>> \o
        [j \in 1..(2 * Len(names)) |->
            names[(j + 1) \div 2] \o (IF j % 2 = 1 THEN "p" ELSE "q")]

\* the keys merge looks up, in its order: the header source (199/203), then
\* arm p and arm q of each sorted name (210-219)
MergeKeys(ref) ==
    LET names == sorted_chr_names(ref)
    IN  <<MitoName(ref)>> \o
        [j \in 1..(2 * Len(names)) |->
            names[(j + 1) \div 2] \o (IF j % 2 = 1 THEN "p" ELSE "q")]

\* merge_and_filter_vcfs, PrepareAA.py:182-225: the artifacts concatenated
\* before the first key chrom_vcf_d lacks (a KeyError), and whether it ended
merge_and_filter_vcfs(chr_names, vcf_list, ref) ==
    LET d == chrom_vcf_d(relevant_vcfs(chr_names, vcf_list))
        keys == MergeKeys(ref)
        missing == {j \in 1..Len(keys) : keys[j] \notin DOMAIN d}
        n == IF missing = {} THEN Len(keys)
             ELSE (CHOOSE j \in missing : \A k \in missing : j <= k) - 1
    IN  [inputs |-> [j \in 1..n |-> d[keys[j]]], ok |-> missing = {}]

\* os.listdir and merge_and_filter_vcfs, PrepareAA.py:740-745
MergeVcfs ==
    /\ pc = "merge"
    /\ LET m == merge_and_filter_vcfs({chr_sizes[i][1] : i \in 1..Len(chr_sizes)},
                                      vcf_dir, args.ref)
       IN  /\ merged' = m.inputs
           /\ calls' = Append(calls, "merge_and_filter_vcfs")
           /\ IF m.ok THEN pc' = "run_canvas" /\ status' = status
              ELSE Halt("error")
    /\ UNCHANGED <<args, argv, env, cnslines, infile, outfile, metadata_dict, sample_info_dict, run_md_dumps,
                   sample_md_dumps, stages, centromere_dict, chr_sizes, regions,
                   threadL, fb_calls, vcf_dir, amplified_interval_bed>>

\* run_canvas and convert_canvas_cnv_to_seeds, PrepareAA.py:751-753
RunCanvas ==
    /\ pc = "run_canvas"
    /\ calls' = calls \o <<"Canvas", "convert_canvas_cnv_to_seeds">>
    /\ args' = [args EXCEPT !.cnv_bed = <<outdir, "canvas_output/", "CNV_GAIN", ".bed">>]
    /\ pc' = "normalize"
    /\ UNCHANGED <<argv, env, cnslines, infile, outfile, status, metadata_dict, sample_info_dict, run_md_dumps,
                   sample_md_dumps, stages, centromere_dict, chr_sizes, regions,
                   threadL, fb_calls, vcf_dir, merged, amplified_interval_bed>>

-----------------------------------------------------------------------------
(* The other CNV_CALL branches and the seed stages, PrepareAA.py:755-797. *)

\* os.path.basename: what follows the last directory of the path
RECURSIVE basename(_)
basename(path) ==
    IF path = <<>> THEN <<>>
    ELSE IF \E i \in 1..Len(path) : path[i] \in {"in/", "out/", "canvas_output/", "_cnvkit_output/"}
         THEN basename(Tail(path))
         ELSE path

\* bambase, PrepareAA.py:690: os.path.splitext(basename)[0] drops the extension
bambase(a) == Front(basename(a.sorted_bam))

\* `elif args.reuse_canvas`, PrepareAA.py:755-756
ReuseCanvas ==
    /\ pc = "cnv_call"
    /\ ~args.canvas_dir /\ args.reuse_canvas
    /\ calls' = Append(calls, "convert_canvas_cnv_to_seeds")
    /\ args' = [args EXCEPT !.cnv_bed = <<outdir, "canvas_output/", "CNV_GAIN", ".bed">>]
    /\ stages' = Append(stages, "CNV_CALL")
    /\ pc' = "normalize"
    /\ UNCHANGED <<argv, env, cnslines, infile, outfile, status, metadata_dict, sample_info_dict, run_md_dumps,
                   sample_md_dumps, centromere_dict, chr_sizes, regions, threadL,
                   fb_calls, vcf_dir, merged, amplified_interval_bed>>

\* args once run_cnvkit has completed the path of Rscript, PrepareAA.py:157-159
with_rscript(a) ==
    IF a.rscript_path # NoPath /\ ~EndsWith(a.rscript_path, <<"/Rscript">>)
    THEN [a EXCEPT !.rscript_path = @ \o <<"/Rscript">>]
    ELSE a

\* `elif runCNV == "CNVkit"`, PrepareAA.py:758-772, with run_cnvkit (126-179),
\* rescale_cnvkit_calls (272-289) and convert_cnvkit_cnv_to_seeds (251-269)
RunCnvkit ==
    /\ pc = "cnv_call"
    /\ ~args.canvas_dir /\ ~args.reuse_canvas /\ args.cnvkit_dir
    /\ stages' = Append(stages, "CNV_CALL")
    /\ \E cnvkit_version \in PopenVersion("cnvkit"), cnsfile \in OutputExists("fail_cnvkit") :
          IF cnvkit_version = "OSError"
          THEN \* Popen raises at 137, before any call of run_cnvkit
               /\ Halt("error")
               /\ UNCHANGED <<args, calls, metadata_dict>>
          ELSE /\ calls' = calls \o <<"cnvkit batch", "cnvkit segment">>
                             \o (IF args.ploidy THEN <<"cnvkit call">> ELSE <<>>)
                             \o <<"convert_cnvkit_cnv_to_seeds">>
               /\ metadata_dict' = Put(Put(metadata_dict, "cnvkit_version", cnvkit_version),
                                       "cnvkit_cmd", "cnvkit batch ; cnvkit segment")
               /\ IF cnsfile
                  THEN /\ args' = [with_rscript(args) EXCEPT !.cnv_bed =
                                      <<outdir, sname, "_cnvkit_output/">> \o bambase(args)
                                          \o <<"_CNV_CALLS", ".bed">>]
                       /\ pc' = "normalize"
                       /\ status' = status
                  ELSE \* open(cnsfile) raises in convert_cnvkit_cnv_to_seeds (258)
                       /\ args' = with_rscript(args)
                       /\ Halt("error")
    /\ UNCHANGED <<argv, env, cnslines, infile, outfile, sample_info_dict, run_md_dumps, sample_md_dumps,
                   centromere_dict, chr_sizes, regions, threadL, fb_calls, vcf_dir,
                   merged, amplified_interval_bed>>

\* no branch of 709-772 is taken
NoCaller(a) == ~a.canvas_dir /\ ~a.reuse_canvas /\ ~a.cnvkit_dir

\* a supplied .cns file rescaled by the caller before it is converted
NormalizeBed_rescale ==
    /\ \/ pc = "normalize"
       \/ pc = "cnv_call" /\ NoCaller(args)
    /\ IF EndsWith(args.cnv_bed, <<".cns">>)
       THEN /\ calls' = calls \o <<"cnvkit call", "convert_cnvkit_cnv_to_seeds">>
            /\ args' = [args EXCEPT !.cnv_bed = <<outdir>> \o bambase(args) \o <<"_CNV_CALLS", ".bed">>]
       ELSE UNCHANGED <<calls, args>>
    /\ sample_info_dict' = Put(sample_info_dict, "sample_cnv_bed", args'.cnv_bed)
    /\ pc' = "seed_filter"
    /\ UNCHANGED <<argv, env, cnslines, infile, outfile, status, metadata_dict, run_md_dumps, sample_md_dumps, stages,
                   centromere_dict, chr_sizes, regions, threadL, fb_calls, vcf_dir,
                   merged, amplified_interval_bed>>

\* a conversion that takes its keyword nofilter=True for the stop point
NormalizeBed_setsnofilter ==
    /\ \/ pc = "normalize"
       \/ pc = "cnv_call" /\ NoCaller(args)
    /\ IF EndsWith(args.cnv_bed, <<".cns">>)
       THEN /\ calls' = Append(calls, "convert_cnvkit_cnv_to_seeds")
            /\ args' = [args EXCEPT !.cnv_bed = <<outdir>> \o bambase(args) \o <<"_CNV_CALLS", ".bed">>,
                                    !.no_filter = TRUE]
       ELSE UNCHANGED <<calls, args>>
    /\ sample_info_dict' = Put(sample_info_dict, "sample_cnv_bed", args'.cnv_bed)
    /\ pc' = "seed_filter"
    /\ UNCHANGED <<argv, env, cnslines, infile, outfile, status, metadata_dict, run_md_dumps, sample_md_dumps, stages,
                   centromere_dict, chr_sizes, regions, threadL, fb_calls, vcf_dir,
                   merged, amplified_interval_bed>>

\* a .cns file is converted, and the bed is recorded, PrepareAA.py:774-781
NormalizeBed ==
    /\ \/ pc = "normalize"
       \/ pc = "cnv_call" /\ NoCaller(args)
    /\ IF EndsWith(args.cnv_bed, <<".cns">>)
       THEN /\ calls' = Append(calls, "convert_cnvkit_cnv_to_seeds")
            /\ args' = [args EXCEPT !.cnv_bed = <<outdir>> \o bambase(args) \o <<"_CNV_CALLS", ".bed">>]
       ELSE UNCHANGED <<calls, args>>
    /\ sample_info_dict' = Put(sample_info_dict, "sample_cnv_bed", args'.cnv_bed)
    /\ pc' = "seed_filter"
    /\ UNCHANGED <<argv, env, cnslines, infile, outfile, status, metadata_dict, run_md_dumps, sample_md_dumps, stages,
                   centromere_dict, chr_sizes, regions, threadL, fb_calls, vcf_dir,
                   merged, amplified_interval_bed>>

\* cnv_prefilter.prefilter_bed, called at PrepareAA.py:785: the pre-filtered
\* file it writes into the output directory
prefilter_bed(bed) == <<outdir>> \o Front(basename(bed)) \o <<"_pre_filtered", ".bed">>

\* the classifier entered whenever it is requested
AfterSeedFilter_anyAC(a) ==
    IF a.run_AA THEN "run_AA"
    ELSE IF a.run_AC THEN "run_AC" ELSE "save_run_metadata"

\* the classifier entered without the detector
AfterSeedFilter_classify(a) ==
    IF a.run_AA /\ a.run_AC THEN "run_AC"
    ELSE IF a.run_AA THEN "run_AA" ELSE "save_run_metadata"

\* the block after SEED_FILTER, PrepareAA.py:799
AfterSeedFilter(a) == IF a.run_AA THEN "run_AA" ELSE "save_run_metadata"

\* the naming convention of a seed file amplified_intervals.py has written
SeedSuffix == <<"_AA_CNV_SEEDS", ".bed">>

\* a test that does not look at the name of the file
filter_wanted_anyname(a) == ~a.no_filter

\* a test that does not look at the stop point
filter_wanted_nostop(a) == ~EndsWith(a.cnv_bed, SeedSuffix)

\* the test of PrepareAA.py:783: the bed is to be filtered
filter_wanted(a) == ~a.no_filter /\ ~EndsWith(a.cnv_bed, SeedSuffix)

\* SEED_FILTER, PrepareAA.py:783-797
SeedFilter ==
    /\ pc = "seed_filter"
    /\ stages' = Append(stages, "SEED_FILTER")
    /\ IF filter_wanted(args)
       THEN IF args.cnv_bed = NoPath
            THEN \* prefilter_bed opens the bed file named "": an IOError
                 /\ calls' = Append(calls, "prefilter_bed")
                 /\ Halt("error")
                 /\ UNCHANGED <<args, metadata_dict, amplified_interval_bed>>
            ELSE /\ IF ~EndsWith(args.cnv_bed, <<"_CNV_CALLS", "_pre_filtered", ".bed">>)
                    THEN /\ args' = [args EXCEPT !.cnv_bed = prefilter_bed(args.cnv_bed)]
                         /\ calls' = calls \o <<"prefilter_bed", "amplified_intervals">>
                    ELSE /\ args' = args
                         /\ calls' = Append(calls, "amplified_intervals")
                 /\ metadata_dict' = Put(metadata_dict, "amplified_intervals_cmd", "amplified_intervals")
                 /\ amplified_interval_bed' = <<outdir, sname>> \o SeedSuffix
                 /\ pc' = AfterSeedFilter(args)
                 /\ status' = status
       ELSE /\ amplified_interval_bed' = args.cnv_bed
            /\ pc' = AfterSeedFilter(args)
            /\ UNCHANGED <<args, calls, metadata_dict, status>>
    /\ UNCHANGED <<argv, env, cnslines, infile, outfile, sample_info_dict, run_md_dumps, sample_md_dumps,
                   centromere_dict, chr_sizes, regions, threadL, fb_calls, vcf_dir, merged>>

-----------------------------------------------------------------------------
(* AMPLICON_DETECT, CLASSIFY and the end of the run, PrepareAA.py:799-851. *)

\* run_AA, PrepareAA.py:304-318, called at 799-808
RunAA ==
    /\ pc = "run_AA"
    /\ stages' = Append(stages, "AMPLICON_DETECT")
    /\ \E AA_version \in PopenVersion("AA") :
          IF AA_version = "OSError"
          THEN \* Popen raises at 306, before the detector is called
               /\ Halt("error")
               /\ UNCHANGED <<calls, metadata_dict>>
          ELSE /\ calls' = Append(calls, "AmpliconArchitect")
               /\ metadata_dict' = Put(Put(metadata_dict, "AA_version", AA_version),
                                       "AA_cmd", "AmpliconArchitect")
               /\ pc' = IF args.run_AC THEN "run_AC" ELSE "save_run_metadata"
               /\ status' = status
    /\ UNCHANGED <<args, argv, env, cnslines, infile, outfile, sample_info_dict, run_md_dumps, sample_md_dumps,
                   centromere_dict, chr_sizes, regions, threadL, fb_calls, vcf_dir,
                   merged, amplified_interval_bed>>

\* what run_AC (PrepareAA.py:321-347) leaves in the two records; AC_version
\* is queried (341) after the classifier has run (338-339)
AC_metadata(md, AC_version) ==
    IF AC_version = "OSError" THEN Put(md, "AC_cmd", "amplicon_classifier")
    ELSE Put(Put(md, "AC_cmd", "amplicon_classifier"), "AC_version", AC_version)

AC_sample_info(si) == Put(si, "number_of_AA_amplicons", 1)

\* the classifier on this run's detector output, PrepareAA.py:810-822;
\* os.environ['AC_SRC'] raises KeyError when the variable is not set, and
\* run_AC opens the input file make_input.sh was to write (332)
RunAC ==
    /\ pc = "run_AC"
    /\ IF env = "no_AC_SRC"
       THEN /\ Halt("error")
            /\ UNCHANGED <<calls, metadata_dict, sample_info_dict, stages>>
       ELSE /\ stages' = Append(stages, "CLASSIFY")
            /\ \E input_file \in OutputExists("fail_AA"), AC_version \in PopenVersion("AC") :
                  IF input_file
                  THEN /\ calls' = calls \o <<"make_input.sh", "amplicon_classifier">>
                       /\ metadata_dict' = AC_metadata(metadata_dict, AC_version)
                       /\ sample_info_dict' = AC_sample_info(sample_info_dict)
                       /\ IF AC_version = "OSError"
                          THEN Halt("error")
                          ELSE pc' = "save_run_metadata" /\ status' = status
                  ELSE /\ calls' = Append(calls, "make_input.sh")
                       /\ Halt("error")
                       /\ UNCHANGED <<metadata_dict, sample_info_dict>>
    /\ UNCHANGED <<args, argv, env, cnslines, infile, outfile, run_md_dumps, sample_md_dumps, centromere_dict, chr_sizes,
                   regions, threadL, fb_calls, vcf_dir, merged, amplified_interval_bed>>

\* the keys save_run_metadata defaults to "NA", PrepareAA.py:436-437
StageKeys == {"bwa_cmd", "cnvkit_cmd", "amplified_intervals_cmd", "AA_cmd", "AC_cmd",
              "cnvkit_version", "AA_version", "AC_version"}

\* the keys save_run_metadata sets itself, PrepareAA.py:414-434
RunKeys == {"launch_datetime", "hostname", "ref_genome", "AA_python_version",
            "PAA_command", "PAA_version"}

\* a record in which a key that was never set stays absent
save_run_metadata_nodefault(md, a, aa_python_v) ==
    [k \in DOMAIN md \cup RunKeys |->
        IF k = "ref_genome" THEN a.ref
        ELSE IF k = "AA_python_version" THEN aa_python_v
        ELSE IF k \in RunKeys THEN k
        ELSE md[k]]

\* metadata_dict when Popen raises at PrepareAA.py:418
save_run_metadata_head(md, a) ==
    Put(Put(Put(md, "launch_datetime", "launch_datetime"), "hostname", "hostname"),
        "ref_genome", a.ref)

\* metadata_dict as save_run_metadata leaves and dumps it, PrepareAA.py:414-439
save_run_metadata(md, a, aa_python_v) ==
    [k \in DOMAIN md \cup RunKeys \cup StageKeys |->
        IF k = "ref_genome" THEN a.ref
        ELSE IF k = "AA_python_version" THEN aa_python_v
        ELSE IF k \in RunKeys THEN k
        ELSE IF k \in DOMAIN md THEN md[k]
        ELSE "NA"]

\* metadata_filename, PrepareAA.py:442
metadata_filename == <<outdir, sname, "_run_metadata", ".json">>

\* the end of the full-pipeline branch without the dump of the run record
SaveRunMetadata_nodump ==
    /\ pc = "save_run_metadata"
    /\ metadata_dict' = save_run_metadata(metadata_dict, args, "python version")
    /\ run_md_dumps' = run_md_dumps
    /\ IF args.run_AA /\ args.run_AC
       THEN /\ calls' = calls \o <<"save_run_metadata", "make_results_table">>
            /\ sample_info_dict' = Put(Put(sample_info_dict, "run_metadata_file", metadata_filename),
                                       "number_of_AA_features", 1)
       ELSE /\ calls' = Append(calls, "save_run_metadata")
            /\ sample_info_dict' = Put(sample_info_dict, "run_metadata_file", metadata_filename)
    /\ pc' = "finalize"
    /\ UNCHANGED <<args, argv, env, cnslines, infile, outfile, status, sample_md_dumps, stages, centromere_dict, chr_sizes,
                   regions, threadL, fb_calls, vcf_dir, merged, amplified_interval_bed>>

\* the end of the full-pipeline branch, PrepareAA.py:824-826: save_run_metadata
\* (400-447), then make_AC_table (350-365) when the classifier ran, which
\* opens the table make_results_table.py was to write (364)
SaveRunMetadata ==
    /\ pc = "save_run_metadata"
    /\ \E aa_python_v \in PopenVersion("python"), result_table \in OutputExists("fail_AC") :
          IF aa_python_v = "OSError"
          THEN \* Popen raises at 418, in save_run_metadata, before the dump
               /\ metadata_dict' = save_run_metadata_head(metadata_dict, args)
               /\ calls' = Append(calls, "save_run_metadata")
               /\ Halt("error")
               /\ UNCHANGED <<run_md_dumps, sample_info_dict>>
          ELSE /\ metadata_dict' = save_run_metadata(metadata_dict, args, aa_python_v)
               /\ run_md_dumps' = Append(run_md_dumps, metadata_dict')
               /\ IF args.run_AA /\ args.run_AC
                  THEN /\ calls' = calls \o <<"save_run_metadata", "make_results_table">>
                       /\ IF result_table
                          THEN /\ sample_info_dict' =
                                     Put(Put(sample_info_dict, "run_metadata_file",
                                             metadata_filename),
                                         "number_of_AA_features", 1)
                               /\ pc' = "finalize"
                               /\ status' = status
                          ELSE /\ sample_info_dict' =
                                     Put(sample_info_dict, "run_metadata_file", metadata_filename)
                               /\ Halt("error")
                  ELSE /\ calls' = Append(calls, "save_run_metadata")
                       /\ sample_info_dict' =
                             Put(sample_info_dict, "run_metadata_file", metadata_filename)
                       /\ pc' = "finalize"
                       /\ status' = status
    /\ UNCHANGED <<args, argv, env, cnslines, infile, outfile, sample_md_dumps, stages, centromere_dict, chr_sizes,
                   regions, threadL, fb_calls, vcf_dir, merged, amplified_interval_bed>>

\* the branch of a completed detector run, PrepareAA.py:828-841
ClassifyCompleted ==
    /\ pc = "classify_completed"
    /\ IF env = "no_AC_SRC"
       THEN /\ Halt("error")
            /\ UNCHANGED <<calls, metadata_dict, sample_info_dict, stages>>
       ELSE /\ stages' = Append(stages, "CLASSIFY")
            /\ \E result_table \in OutputExists("fail_AC"), AC_version \in PopenVersion("AC") :
                  /\ metadata_dict' = AC_metadata(metadata_dict, AC_version)
                  /\ IF AC_version = "OSError"
                     THEN \* Popen raises at 341, in run_AC
                          /\ calls' = calls \o <<"make_input.sh", "amplicon_classifier">>
                          /\ sample_info_dict' = AC_sample_info(sample_info_dict)
                          /\ Halt("error")
                     ELSE /\ calls' = calls \o <<"make_input.sh", "amplicon_classifier",
                                                 "make_results_table">>
                          /\ IF result_table
                             THEN /\ sample_info_dict' =
                                        Put(Put(AC_sample_info(sample_info_dict),
                                                "number_of_AA_features", 1),
                                            "run_metadata_file", args.completed_run_metadata)
                                  /\ pc' = "finalize"
                                  /\ status' = status
                             ELSE /\ sample_info_dict' = AC_sample_info(sample_info_dict)
                                  /\ Halt("error")
    /\ UNCHANGED <<args, argv, env, cnslines, infile, outfile, run_md_dumps, sample_md_dumps, centromere_dict, chr_sizes,
                   regions, threadL, fb_calls, vcf_dir, merged, amplified_interval_bed>>

\* the sample record dumped before its reference is set
Finalize_dumpfirst ==
    /\ pc = "finalize"
    /\ sample_md_dumps' = Append(sample_md_dumps, sample_info_dict)
    /\ sample_info_dict' = Put(sample_info_dict, "reference_genome", args.ref)
    /\ stages' = Append(stages, "FINALIZE")
    /\ Halt("exit0")
    /\ UNCHANGED <<args, argv, env, cnslines, infile, outfile, metadata_dict, run_md_dumps, calls, centromere_dict,
                   chr_sizes, regions, threadL, fb_calls, vcf_dir, merged,
                   amplified_interval_bed>>

\* the last lines of __main__, PrepareAA.py:843-851: the sample record gets
\* its reference and is dumped, and the process ends
Finalize ==
    /\ pc = "finalize"
    /\ sample_info_dict' = Put(sample_info_dict, "reference_genome", args.ref)
    /\ sample_md_dumps' = Append(sample_md_dumps, sample_info_dict')
    /\ stages' = Append(stages, "FINALIZE")
    /\ Halt("exit0")
    /\ UNCHANGED <<args, argv, env, cnslines, infile, outfile, metadata_dict, run_md_dumps, calls, centromere_dict,
                   chr_sizes, regions, threadL, fb_calls, vcf_dir, merged,
                   amplified_interval_bed>>

-----------------------------------------------------------------------------

Next ==
    \/ Startup
    \/ RunBwa
    \/ IndexQC
    \/ LoadReference
    \/ CanvasPartition
    \/ SpawnThread
    \/ \E i \in 1..Len(threadL) : WorkerPop(i)
    \/ \E i \in 1..Len(threadL) : WorkerCall(i)
    \/ JoinThreads
    \/ MergeVcfs
    \/ RunCanvas
    \/ ReuseCanvas
    \/ RunCnvkit
    \/ NormalizeBed
    \/ SeedFilter
    \/ RunAA
    \/ RunAC
    \/ SaveRunMetadata
    \/ ClassifyCompleted
    \/ Finalize

Spec == Init /\ [][Next]_vars

-----------------------------------------------------------------------------
(* Properties of the fan-out and the merge. *)

\* every worker has been started and has ended
AllWorkersDone ==
    /\ Len(threadL) = args.nthreads
    /\ \A i \in 1..Len(threadL) : threadL[i].state = "done"

\* the regions the partitioner emitted for this run
EmittedRegions == Range(Partition(centromere_dict, chr_sizes))

\* C1: in the freebayes fan-out no region is ever invoked twice, no two
\* workers ever hold the same region, and once all workers have terminated
\* the regions freebayes was invoked on are exactly the regions the
\* partitioner emitted, each invoked exactly once.
C1_PopExhaustion ==
    /\ \A r \in DOMAIN fb_calls : fb_calls[r] <= 1
    /\ \A i, j \in 1..Len(threadL) :
          (i # j /\ threadL[i].cur # <<>>) => threadL[i].cur # threadL[j].cur
    /\ AllWorkersDone =>
          /\ {r \in DOMAIN fb_calls : fb_calls[r] >= 1} = EmittedRegions
          /\ \A r \in EmittedRegions : fb_calls[r] = 1
          /\ vcf_dir = {VcfParts(r) : r \in EmittedRegions}

\* two workers have emptied a list of more regions than workers
C1_Witness ==
    /\ AllWorkersDone
    /\ args.nthreads = 2
    /\ Cardinality(EmittedRegions) > 2
    /\ \A r \in EmittedRegions : fb_calls[r] = 1

\* merge has begun
MergeBegun == pc = "merge" \/ \E i \in 1..Len(calls) : calls[i] = "merge_and_filter_vcfs"

\* C2: the controller is past the join only when every worker has
\* terminated; when merge has begun (and at any later stage of that run) all
\* workers are terminated and the work list is empty.
C2_JoinBarrier ==
    /\ pc \notin {"spawn", "join"} =>
          \A i \in 1..Len(threadL) : threadL[i].state = "done"
    /\ MergeBegun => AllWorkersDone /\ regions = <<>>

\* merge begins after two workers
C2_Witness == pc = "merge" /\ args.nthreads = 2 /\ AllWorkersDone /\ regions = <<>>

\* the fixed order of the claim: the mitochondrial artifact, then contigs
\* 1..22, X, Y (as many autosomes as the modelled reference has), p before q
C3_Order(ref) ==
    LET chr(x) == IF ref = "GRCh37" THEN x ELSE "chr" \o x
        arms(x) == <<sname_parts \o <<chr(x), "p">>, sname_parts \o <<chr(x), "q">>>>
        RECURSIVE autosomes(_)
        autosomes(i) == IF i > NumAutosomes THEN <<>> ELSE arms(ToString(i)) \o autosomes(i + 1)
    IN  <<sname_parts \o <<IF ref = "GRCh37" THEN "MT" ELSE "chrM", "">>>>
            \o autosomes(1) \o arms("X") \o arms("Y")

\* C3: whatever the order in which the workers popped and completed the
\* regions and whatever the order of the contig map, merge concatenates the
\* artifacts in the fixed order (a merge that stops at a missing artifact has
\* concatenated a prefix of it).
C3_MergeDeterminism ==
    MergeBegun /\ pc # "merge" =>
        /\ Len(merged) <= Len(C3_Order(args.ref))
        /\ merged = SubSeq(C3_Order(args.ref), 1, Len(merged))
        /\ Range(C3_Order(args.ref)) \subseteq vcf_dir => merged = C3_Order(args.ref)

\* a complete merge after two workers, the contig map not in merge order
C3_Witness ==
    /\ MergeBegun /\ pc # "merge"
    /\ args.nthreads = 2
    /\ merged = C3_Order(args.ref)
    /\ chr_sizes[1][1] = "chrY"

-----------------------------------------------------------------------------
(* Properties of the region partitioner. *)

\* `regions` is the list the partitioner built and no worker has popped from
FreshPartition ==
    \/ pc = "spawn" /\ threadL = <<>>
    \/ pc = "run_canvas" /\ args.vcf

\* the number of regions of contig k that hold position x; a region
\* "start-end" is the half-open interval [start, end) of freebayes -r
CoverCount(k, x) ==
    Cardinality({i \in 1..Len(regions) :
                    regions[i].key = k /\ regions[i].start <= x /\ x < regions[i].end})

\* positions at and next to every boundary of contig item = <<key, length - 1>>
Probes(item) ==
    LET b == {0, item[2], item[2] + 1} \cup
             (IF item[1] \in DOMAIN centromere_dict
              THEN {centromere_dict[item[1]][1], centromere_dict[item[1]][2]} ELSE {})
    IN  {y + d : y \in b, d \in {-1, 0, 1}}

InCentromere(k, x) ==
    /\ k \in DOMAIN centromere_dict
    /\ centromere_dict[k][1] <= x
    /\ x < centromere_dict[k][2]

RegionsAt(k) == {i \in 1..Len(regions) : regions[i].key = k}

\* C5: for each contig of the length map the partitioner emits exactly the
\* two regions p and q when the contig has a centromere entry and exactly one
\* region with empty arm when it has none; it emits nothing else, and no
\* (contig, arm) pair twice.
C5_RegionsPerContig ==
    FreshPartition =>
        /\ \A n \in 1..Len(chr_sizes) :
              LET k == chr_sizes[n][1]
              IN  IF k \in DOMAIN centromere_dict
                  THEN /\ Cardinality(RegionsAt(k)) = 2
                       /\ {regions[i].arm : i \in RegionsAt(k)} = {"p", "q"}
                  ELSE /\ Cardinality(RegionsAt(k)) = 1
                       /\ {regions[i].arm : i \in RegionsAt(k)} = {""}
        /\ \A i \in 1..Len(regions) : \E n \in 1..Len(chr_sizes) : regions[i].key = chr_sizes[n][1]
        /\ \A i, j \in 1..Len(regions) :
              i # j => <<regions[i].key, regions[i].arm>> # <<regions[j].key, regions[j].arm>>

\* a partition of a map with a contig that has a centromere, a contig that
\* has none, and a centromere entry for a contig the map lacks
C5_Witness ==
    /\ FreshPartition
    /\ \E n, m \in 1..Len(chr_sizes) :
          /\ chr_sizes[n][1] \in DOMAIN centromere_dict
          /\ chr_sizes[m][1] \notin DOMAIN centromere_dict
    /\ \E k \in DOMAIN centromere_dict : \A n \in 1..Len(chr_sizes) : chr_sizes[n][1] # k

-----------------------------------------------------------------------------
(* Properties of the stage controller. *)

StageRank(st) ==
    CASE st = "ALIGN" -> 1
      [] st = "INDEX/QC" -> 2
      [] st = "CNV_CALL" -> 3
      [] st = "SEED_FILTER" -> 4
      [] st = "AMPLICON_DETECT" -> 5
      [] st = "CLASSIFY" -> 6
      [] st = "FINALIZE" -> 7

IsPrefix(a, b) == Len(a) <= Len(b) /\ a = SubSeq(b, 1, Len(a))

\* the process has ended with exit status 0
ExitedOk == pc = "done" /\ status = "exit0"

\* the command line named a sorted BAM and a CNV bed, asked for detection and
\* classification and set no stop point (none of these options is reassigned)
SortedBamWithBed ==
    /\ ~args.fastqs /\ ~args.completed_AA_runs
    /\ NoCaller(args) /\ ~args.align_only /\ args.completed_run_metadata = NoPath
    /\ ~args.no_filter /\ args.run_AA /\ args.run_AC

C6_Scenario == <<"INDEX/QC", "SEED_FILTER", "AMPLICON_DETECT", "CLASSIFY", "FINALIZE">>

\* C6: in every run the executed stages follow the order ALIGN, INDEX/QC,
\* CNV_CALL, SEED_FILTER, AMPLICON_DETECT, CLASSIFY, FINALIZE, each at most
\* once; a run on a sorted BAM with a supplied CNV bed, no stop point,
\* detection and classification executes INDEX/QC, SEED_FILTER,
\* AMPLICON_DETECT, CLASSIFY, FINALIZE, exactly those when it exits normally.
C6_StageOrder ==
    /\ \A i, j \in 1..Len(stages) : i < j => StageRank(stages[i]) < StageRank(stages[j])
    /\ SortedBamWithBed =>
          /\ IsPrefix(stages, C6_Scenario)
          /\ ExitedOk => stages = C6_Scenario

C6_Witness == SortedBamWithBed /\ ExitedOk /\ stages = C6_Scenario

\* the stages the align-only stop point keeps from running
AfterAlignment == {"CNV_CALL", "SEED_FILTER", "AMPLICON_DETECT", "CLASSIFY"}

RanToEnd == ExitedOk /\ stages # <<>> /\ Last(stages) = "FINALIZE"

\* C8 as stated: each terminal branch has dumped the run record exactly once
\* when the process exits normally, and no run dumps it more than once.
C8_BothBranchesDump ==
    /\ Len(run_md_dumps) <= 1
    /\ RanToEnd => Len(run_md_dumps) = 1

\* C8 as amended: the full-pipeline branch has dumped the run record exactly
\* once when the process exits normally from the end of __main__; the branch
\* of a completed run never dumps it and records the supplied metadata path;
\* no run dumps it more than once.
C8_FullBranchDumps ==
    /\ Len(run_md_dumps) <= 1
    /\ RanToEnd =>
          IF args.completed_AA_runs
          THEN /\ run_md_dumps = <<>>
               /\ sample_info_dict["run_metadata_file"] = args.completed_run_metadata
          ELSE /\ Len(run_md_dumps) = 1
               /\ sample_info_dict["run_metadata_file"] = metadata_filename
    /\ run_md_dumps # <<>> => ~args.completed_AA_runs /\ pc \in {"finalize", "done"}

\* a full-pipeline run has ended with one dump of the run record
C8_Witness == RanToEnd /\ ~args.completed_AA_runs /\ Len(run_md_dumps) = 1

\* the exit at the align-only stop point (697-703)
AlignOnlyExit == ExitedOk /\ args.align_only /\ ~args.completed_AA_runs

\* the keys the two branches add to the sample record before the dump
SampleKeys ==
    {"sample_name", "run_metadata_file", "reference_genome"}
    \cup (IF args.completed_AA_runs THEN {} ELSE {"sample_cnv_bed"})
    \cup (IF args.completed_AA_runs \/ (args.run_AA /\ args.run_AC)
          THEN {"number_of_AA_amplicons", "number_of_AA_features"} ELSE {})

\* C9: the sample record is dumped exactly once on every run that exits
\* normally other than at the align-only stop point, on either branch, never
\* twice, and with every enrichment in it: the record in memory never differs
\* from the document dumped.
C9_SampleDumpedLast ==
    /\ Len(sample_md_dumps) <= 1
    /\ (ExitedOk /\ ~AlignOnlyExit) => Len(sample_md_dumps) = 1
    /\ sample_md_dumps # <<>> =>
          /\ sample_md_dumps[1] = sample_info_dict
          /\ DOMAIN sample_md_dumps[1] = SampleKeys
          /\ pc = "done"

\* a full run with detection and classification has dumped the sample record
C9_Witness ==
    /\ ExitedOk /\ ~args.completed_AA_runs /\ args.run_AA /\ args.run_AC
    /\ Len(sample_md_dumps) = 1
    /\ "number_of_AA_features" \in DOMAIN sample_md_dumps[1]

\* C10: a run that takes the align-only exit dumps neither the run record nor
\* the sample record, also when ALIGN ran and put its command into the run
\* record.
C10_AlignOnlyNoFlush ==
    (args.align_only /\ ~args.completed_AA_runs) =>
        run_md_dumps = <<>> /\ sample_md_dumps = <<>>

\* the align-only exit after ALIGN recorded bwa_cmd
C10_Witness ==
    /\ AlignOnlyExit
    /\ "bwa_cmd" \in DOMAIN metadata_dict
    /\ run_md_dumps = <<>> /\ sample_md_dumps = <<>>

-----------------------------------------------------------------------------
(* Properties of the run record. *)

\* the invocation whose command or version a key of the run record holds
RecordedCall(k) ==
    CASE k = "bwa_cmd" -> "bwa mem"
      [] k \in {"cnvkit_cmd", "cnvkit_version"} -> "cnvkit batch"
      [] k = "amplified_intervals_cmd" -> "amplified_intervals"
      [] k \in {"AA_cmd", "AA_version"} -> "AmpliconArchitect"
      [] k \in {"AC_cmd", "AC_version"} -> "amplicon_classifier"

\* the collaborator a key belongs to was invoked in this run
Executed(k) == \E i \in 1..Len(calls) : calls[i] = RecordedCall(k)

\* C11: every dumped run record has the same key set (the six keys
\* save_run_metadata sets and the eight stage keys), and the value of a stage
\* key is "NA" exactly when the collaborator the key belongs to was not
\* invoked in the run.
C11_StableSchema ==
    \A n \in 1..Len(run_md_dumps) :
        /\ DOMAIN run_md_dumps[n] = RunKeys \cup StageKeys
        /\ \A k \in StageKeys : (run_md_dumps[n][k] = "NA") <=> ~Executed(k)

\* the record of a run on a sorted BAM with a supplied bed, detection and
\* classification: bwa_cmd is "NA" and AC_cmd is not
C11_Witness ==
    /\ SortedBamWithBed
    /\ Len(run_md_dumps) = 1
    /\ run_md_dumps[1]["bwa_cmd"] = "NA"
    /\ run_md_dumps[1]["AC_cmd"] # "NA"
    /\ run_md_dumps[1]["amplified_intervals_cmd"] # "NA"

-----------------------------------------------------------------------------
(* Properties of the configuration checks. *)

\* nothing of the pipeline has run: no stage, no collaborator, no worker, no dump
NothingRan ==
    /\ stages = <<>> /\ calls = <<>> /\ threadL = <<>>
    /\ run_md_dumps = <<>> /\ sample_md_dumps = <<>>

\* C12: a command line that gives more than one CNV-method selector (for
\* example --cnv_bed together with --cnvkit_dir) ends at the parser's error,
\* with a non-zero exit status, before any stage has run.
C12_ConflictingMethods ==
    Cardinality(argv \cap Methods) > 1 =>
        /\ NothingRan
        /\ pc \in {"startup", "done"}
        /\ pc = "done" => status = "exit2"

\* --sorted_bam with --cnv_bed and --cnvkit_dir has been rejected
C12_Witness ==
    /\ argv = {"sorted_bam", "cnv_bed", "cnvkit_dir"}
    /\ pc = "done" /\ status = "exit2"
    /\ NothingRan

\* the options that select a branch of CNV_CALL: the first caller, the reuse
\* of its output, the second caller, a supplied CNV file
CnvBranches == {"canvas_dir", "reuse_canvas", "cnvkit_dir", "cnv_bed"}

\* C13: a run from raw reads or a sorted alignment without the align-only
\* stop point whose command line selects none of the four CNV_CALL branches
\* executes no stage, and no such run has executed SEED_FILTER unless exactly
\* one branch was selected.
C13_BranchSelected ==
    (argv \cap {"fastqs", "sorted_bam"} # {} /\ "align_only" \notin argv) =>
        /\ argv \cap CnvBranches = {} => stages = <<>>
        /\ (\E i \in 1..Len(stages) : stages[i] = "SEED_FILTER") =>
               Cardinality(argv \cap CnvBranches) = 1

-----------------------------------------------------------------------------
(* Properties of the entry points. *)

\* what the branch of a completed detector run invokes (run_AC, make_AC_table)
ClassifierCalls == {"make_input.sh", "amplicon_classifier", "make_results_table"}

\* C14: a run entered with a completed detector run executes none of ALIGN,
\* INDEX/QC, CNV_CALL, SEED_FILTER, AMPLICON_DETECT and starts no worker: the
\* only collaborators it invokes are the classifier's, CLASSIFY is its first
\* stage and finalization follows.
C14_CompletedRunClassifiesOnly ==
    "completed_AA_runs" \in argv =>
        /\ IsPrefix(stages, <<"CLASSIFY", "FINALIZE">>)
        /\ \A i \in 1..Len(calls) : calls[i] \in ClassifierCalls
        /\ threadL = <<>> /\ fb_calls = <<>> /\ amplified_interval_bed = NoPath
        /\ ExitedOk => stages = <<"CLASSIFY", "FINALIZE">>

\* a run on a completed detector run has classified and finalized
C14_Witness ==
    /\ "completed_AA_runs" \in argv
    /\ ExitedOk
    /\ stages = <<"CLASSIFY", "FINALIZE">>
    /\ calls = <<"make_input.sh", "amplicon_classifier", "make_results_table">>

\* the CNV callers and the variant-calling sub-pipeline
CallerCalls == {"Canvas", "cnvkit batch", "cnvkit segment", "cnvkit call",
                "freebayes --version", "merge_and_filter_vcfs"}

\* the command line names a CNV file as its method
BedSupplied == argv \cap Methods = {"cnv_bed"}

\* no CNV caller, no worker and no CNV_CALL stage in this run so far
NoCnvCall ==
    /\ \A i \in 1..Len(calls) : calls[i] \notin CallerCalls
    /\ threadL = <<>> /\ fb_calls = <<>> /\ regions = <<>>
    /\ \A i \in 1..Len(stages) : stages[i] # "CNV_CALL"

\* C15 as stated: with a supplied CNV file no CNV caller and no fan-out is
\* invoked, and the first stage the controller executes is SEED_FILTER.
C15_StartsAtSeedFilter ==
    BedSupplied =>
        /\ NoCnvCall
        /\ stages # <<>> => stages[1] = "SEED_FILTER"

\* C15 as amended: with a supplied CNV file no CNV caller and no fan-out is
\* invoked and CNV_CALL is skipped; a run from raw reads or a sorted alignment
\* still starts at ALIGN or INDEX/QC, and SEED_FILTER is the stage that
\* follows INDEX/QC.
C15_SuppliedBedSkipsCnvCall ==
    BedSupplied =>
        /\ NoCnvCall
        /\ (stages # <<>> /\ "completed_AA_runs" \notin argv) =>
               stages[1] \in {"ALIGN", "INDEX/QC"}
        /\ \A i \in 1..Len(stages) :
               stages[i] = "SEED_FILTER" => i > 1 /\ stages[i - 1] = "INDEX/QC"
        /\ \A i \in 1..Len(stages) :
               (stages[i] = "INDEX/QC" /\ i < Len(stages)) => stages[i + 1] = "SEED_FILTER"

\* a sorted BAM with a supplied segment file has reached SEED_FILTER
C15_Witness ==
    /\ argv = {"sorted_bam", "cnv_bed"}
    /\ stages = <<"INDEX/QC", "SEED_FILTER">>
    /\ calls = <<"check_properly_paired", "convert_cnvkit_cnv_to_seeds", "prefilter_bed", "amplified_intervals">>

\* stage st has been executed in this run
HasRun(st) == \E i \in 1..Len(stages) : stages[i] = st

\* C16: ALIGN is executed only by a run entered with raw reads, and it is
\* then the first stage, executed as soon as the start-up checks have passed;
\* a run entered with a sorted alignment never executes ALIGN nor invokes the
\* aligner, and its first stage is INDEX/QC.
C16_AlignIffFastqs ==
    /\ HasRun("ALIGN") => "fastqs" \in argv /\ stages[1] = "ALIGN"
    /\ (\E i \in 1..Len(calls) : calls[i] = "bwa mem") <=> HasRun("ALIGN")
    /\ (argv \cap Entries = {"fastqs"} /\ pc \notin {"startup", "run_bwa", "done"}) =>
           HasRun("ALIGN")
    /\ (argv \cap Entries = {"fastqs"} /\ stages # <<>>) => stages[1] = "ALIGN"
    /\ (argv \cap Entries = {"sorted_bam"} /\ stages # <<>>) =>
           stages[1] = "INDEX/QC" /\ ~HasRun("ALIGN")

\* a run from raw reads has gone from ALIGN through INDEX/QC to the end
C16_Witness ==
    /\ argv \cap Entries = {"fastqs"}
    /\ ExitedOk
    /\ Len(stages) > 2
    /\ stages[1] = "ALIGN" /\ stages[2] = "INDEX/QC"

-----------------------------------------------------------------------------
(* Properties of failing collaborators. *)

\* the invocation that returns a non-zero status in this environment
FailingCall ==
    CASE env = "fail_cnvkit" -> "cnvkit batch"
      [] env = "fail_amplified_intervals" -> "amplified_intervals"
      [] env = "fail_AA" -> "AmpliconArchitect"
      [] env = "fail_AC" -> "amplicon_classifier"
      [] OTHER -> "none"

\* the stage of that invocation
FailingStage ==
    CASE env = "fail_cnvkit" -> "CNV_CALL"
      [] env = "fail_amplified_intervals" -> "SEED_FILTER"
      [] env = "fail_AA" -> "AMPLICON_DETECT"
      [] env = "fail_AC" -> "CLASSIFY"
      [] OTHER -> "none"

\* the failing collaborator has been invoked
StageFailed == \E i \in 1..Len(calls) : calls[i] = FailingCall

\* C17: once a collaborator outside the fan-out has returned a non-zero
\* status, the failing stage is the last stage of the run (no later stage is
\* invoked) and the run does not end with exit status 0.
C17_FailureIsFatal ==
    StageFailed =>
        /\ Last(stages) = FailingStage
        /\ ~ExitedOk

\* freebayes has returned a non-zero status for a region
FanOutFailed == env = "fail_freebayes" /\ \E r \in DOMAIN fb_calls : fb_calls[r] >= 1

\* C18: when freebayes fails inside the fan-out, the workers still pop and
\* invoke every remaining region and the join is reached, and the run then
\* ends in merge_and_filter_vcfs with an error on the lookup of an artifact:
\* the controller never gets past the merge.
C18_FanOutFailureFailsMerge ==
    FanOutFailed =>
        /\ AllWorkersDone => \A r \in EmittedRegions : fb_calls[r] = 1
        /\ pc \in {"spawn", "join", "merge", "done"}
        /\ pc = "done" => status = "error" /\ Len(merged) < Len(MergeKeys(args.ref))

\* what the environment lacks is a required variable or reference data
ConfigFaults == {"no_AA_DATA_REPO", "no_AA_SRC", "no_ref_dir",
                 "no_repo_files", "no_canvas_dir", "no_cnv_bed_file"}

\* the command line asks for the classifier
ClassifierRequested ==
    \/ "completed_AA_runs" \in argv
    \/ args.run_AA /\ args.run_AC /\ "align_only" \notin argv

\* the run has a configuration error: missing environment or reference data
\* that the command line needs, conflicting or missing selectors, or a sample
\* name that is a path
ConfigError ==
    \/ env \in ConfigFaults
    \/ env = "no_AC_SRC" /\ ClassifierRequested
    \/ ~OneOfEach(argv)
    \/ args.sample_name_is_path

\* C19: a run with a configuration error (AC_SRC not set when the classifier
\* is requested included) never gets past the start-up checks: no stage has
\* run, no collaborator has been invoked, and the process ends with a
\* non-zero exit status.
C19_ConfigErrorsBeforeStages ==
    ConfigError =>
        /\ NothingRan
        /\ pc \in {"startup", "done"}
        /\ pc = "done" => status \in {"exit1", "exit2", "error"}

\* the version keys of the run record: CNV caller, detector, classifier and the
\* detector's interpreter
VersionKeys == {"cnvkit_version", "AA_version", "AC_version", "AA_python_version"}

\* the version key k was queried in this run
Queried(k) == k = "AA_python_version" \/ Executed(k)

\* the run selects a branch of CNV_CALL or classifies a completed run, so
\* that nothing but a version query can go wrong in it
WellConfigured == argv \cap CnvBranches # {} \/ "completed_AA_runs" \in argv

\* C20: when the version queries of the collaborators fail, the run is not
\* terminated by it, and every version field that was queried holds "NA" in
\* the dumped run record.
C20_VersionFailureRecordedNA ==
    (env = "no_version" /\ WellConfigured) =>
        /\ status # "error"
        /\ \A n \in 1..Len(run_md_dumps) : \A k \in VersionKeys :
               Queried(k) => run_md_dumps[n][k] = "NA"

-----------------------------------------------------------------------------
(* Properties of the configuration record (the argparse namespace). *)

\* the start-up checks have passed and the pipeline has begun
PipelineBegun == pc # "startup"

\* C21 as stated: once the start-up resolution is finished and the first
\* stage begins, no stage changes any field of the configuration.
C21_ContextImmutable == [][PipelineBegun => args' = args]_vars

\* C21 as amended: once the pipeline has begun, the reference, the stop
\* points, the thread count, the entry and method selectors and the rescaling
\* options are never changed; the alignment path is assigned only by ALIGN, the
\* CNV bed path only by CNV_CALL, the conversion of a segment file and the
\* pre-filter of SEED_FILTER, and the Rscript path only by the second CNV
\* caller; no worker changes any field.
C21_ContextFrame ==
    [][PipelineBegun =>
          /\ [args' EXCEPT !.sorted_bam = args.sorted_bam,
                           !.cnv_bed = args.cnv_bed,
                           !.rscript_path = args.rscript_path] = args
          /\ args'.sorted_bam # args.sorted_bam => pc = "run_bwa"
          /\ args'.cnv_bed # args.cnv_bed =>
                pc \in {"cnv_call", "run_canvas", "normalize", "seed_filter"}
          /\ args'.rscript_path # args.rscript_path => pc = "cnv_call" /\ args.cnvkit_dir
          /\ args' # args => threadL' = threadL]_vars

\* a run from raw reads has ended with the alignment path ALIGN assigned and
\* the CNV bed path a later stage assigned
C21_Witness ==
    /\ "fastqs" \in argv /\ "cnv_bed" \notin argv
    /\ ExitedOk
    /\ args.sorted_bam = <<outdir, sname, ".cs.rmdup", ".bam">>
    /\ args.cnv_bed # NoPath

-----------------------------------------------------------------------------
(* Properties of the seed filter. *)

\* the filtering collaborators of SEED_FILTER
FilterCalls == {"prefilter_bed", "amplified_intervals"}

\* no filtering collaborator has been invoked in this run
NoFilterCall == \A i \in 1..Len(calls) : calls[i] \notin FilterCalls

\* C22: when the CNV file that enters SEED_FILTER carries the naming
\* convention of a filtered seed file, SEED_FILTER invokes no collaborator and
\* hands that same file, unchanged, to the next stage; and the file SEED_FILTER
\* hands on after it has filtered carries the convention, so that SEED_FILTER
\* applied to its own output returns that output.
C22_FilterIdempotent ==
    /\ [][(pc = "seed_filter" /\ EndsWith(args.cnv_bed, SeedSuffix)) =>
             /\ calls' = calls /\ args' = args /\ metadata_dict' = metadata_dict
             /\ amplified_interval_bed' = args.cnv_bed
             /\ pc' \in {"run_AA", "save_run_metadata"}]_vars
    /\ []((HasRun("SEED_FILTER") /\ ~NoFilterCall /\ status # "error") =>
             EndsWith(amplified_interval_bed, SeedSuffix))

\* a supplied seed file has gone through SEED_FILTER to the detector without
\* any filter call, the stop point not set
C22_Witness ==
    /\ BedSupplied /\ ~args.no_filter
    /\ amplified_interval_bed = <<"in/", "s">> \o SeedSuffix
    /\ HasRun("SEED_FILTER") /\ NoFilterCall
    /\ \E i \in 1..Len(calls) : calls[i] = "AmpliconArchitect"

\* the conversion of a segment file is the step that is enabled
AtNormalize == pc = "normalize" \/ (pc = "cnv_call" /\ NoCaller(args))

\* C23: with the no-filter stop point set, neither the pre-filter nor the
\* amplified-interval filter is ever invoked and the seed file handed to
\* detection is the CNV file itself; a segment file (suffix .cns) is
\* nevertheless converted into the seed schema before SEED_FILTER.
C23_NoFilterStillNormalizes ==
    /\ [](args.no_filter =>
             /\ NoFilterCall
             /\ HasRun("SEED_FILTER") => amplified_interval_bed = args.cnv_bed)
    /\ [][(args.no_filter /\ AtNormalize /\ EndsWith(args.cnv_bed, <<".cns">>)) =>
             /\ calls' = Append(calls, "convert_cnvkit_cnv_to_seeds")
             /\ EndsWith(args'.cnv_bed, <<"_CNV_CALLS", ".bed">>)
             /\ pc' = "seed_filter"]_vars

\* with the stop point set, a supplied segment file has been converted and
\* handed to the detector unfiltered
C23_Witness ==
    /\ BedSupplied /\ args.no_filter
    /\ calls = <<"check_properly_paired", "convert_cnvkit_cnv_to_seeds", "AmpliconArchitect">>
    /\ amplified_interval_bed = <<outdir, "tumor", "_CNV_CALLS", ".bed">>

\* C24: whenever a ploidy and/or purity estimate is supplied and a segment
\* record is converted into seeds (the record of the second CNV caller or a
\* segment file of the user), the rescale call has been executed before the
\* conversion; when no estimate is supplied no rescale call is made.
C24_RescaleBeforeNormalize ==
    /\ args.ploidy =>
          \A j \in 1..Len(calls) :
              calls[j] = "convert_cnvkit_cnv_to_seeds" =>
                  \E i \in 1..(j - 1) : calls[i] = "cnvkit call"
    /\ ~args.ploidy => \A i \in 1..Len(calls) : calls[i] # "cnvkit call"

-----------------------------------------------------------------------------
(* The files a run writes. *)

\* the artifact a worker writes for region r, PrepareAA.py:94-101, in
\* freebayes_output_directory (727)
VcfPath(r) == <<outdir, "freebayes_vcfs/">> \o VcfParts(r) \o <<".vcf", ".gz">>

\* cnvkit_output_directory + bamBase, PrepareAA.py:759 and 164-165
cnvkit_base(a) == <<outdir, sname, "_cnvkit_output/">> \o bambase(a)

\* class_output, PrepareAA.py:324 and 815
class_output == <<outdir, sname, "_classification/", sname>>

\* The files an invocation of the controller thread writes, by the name the
\* invocation has in `calls`: the targets its command line or its open()
\* names. prefilter_bed returns the path of the file it wrote, which is
\* args.cnv_bed from then on (785).
Artifacts(c) ==
    CASE c = "bwa mem" ->                                                   \* 56-60
            {<<outdir, sname, ".cs", ".bam">>, <<outdir, sname, "_aln_stage", ".stderr">>}
      [] c = "samtools rmdup" -> {<<outdir, sname, ".cs.rmdup", ".bam">>}     \* 66
      [] c = "samtools index" -> {<<outdir, sname, ".cs.rmdup", ".bam", ".bai">>}  \* 70
      [] c = "merge_and_filter_vcfs" -> {<<outdir, sname, "_merged", ".vcf", ".gz">>}  \* 185, 221
      [] c = "Canvas" ->                                                    \* 119-120, 230
            {<<outdir, "canvas_output/", "canvas_stdout", ".log">>,
             <<outdir, "canvas_output/", "CNV", ".vcf", ".gz">>}
      [] c = "convert_canvas_cnv_to_seeds" ->                               \* 231
            {<<outdir, "canvas_output/", "CNV_GAIN", ".bed">>}
      [] c = "cnvkit batch" -> {cnvkit_base(args) \o <<".cnr">>}              \* 148-151, 164
      [] c = "cnvkit segment" -> {cnvkit_base(args) \o <<".cns">>}            \* 165-169
      [] c = "cnvkit call" -> {cnvkit_base(args) \o <<"_rescaled", ".cns">>}  \* 287
      [] c = "convert_cnvkit_cnv_to_seeds" ->                               \* 258, 772, 775
            IF args.cnvkit_dir
            THEN {cnvkit_base(args) \o <<"_CNV_CALLS", ".bed">>}
            ELSE {<<outdir>> \o bambase(args) \o <<"_CNV_CALLS", ".bed">>}
      [] c = "prefilter_bed" -> IF args.cnv_bed = NoPath THEN {} ELSE {args.cnv_bed}  \* 785
      [] c = "amplified_intervals" -> {<<outdir, sname>> \o SeedSuffix}       \* 294-297
      [] c = "AmpliconArchitect" -> {<<outdir, sname, "_AA_results/", sname>>}  \* 314-315, 800
      [] c = "make_input.sh" -> {class_output \o <<".input">>}                \* 325, 330
      [] c = "amplicon_classifier" ->                                       \* 335, 354
            {class_output \o <<"_amplicon_classification_profiles", ".tsv">>}
      [] c = "save_run_metadata" -> {metadata_filename}                      \* 442-444
      [] c = "make_results_table" -> {class_output \o <<"_result_table", ".tsv">>}  \* 364
      [] OTHER -> {}

\* smofname, PrepareAA.py:844, written by the last block of __main__
smofname == <<outdir, sname, "_sample_metadata", ".json">>

\* every file the controller thread has written in this run so far
ControllerArtifacts ==
    UNION {Artifacts(calls[i]) : i \in 1..Len(calls)}
    \cup (IF sample_md_dumps # <<>> THEN {smofname} ELSE {})

\* the regions a worker has invoked freebayes on
InvokedRegions == {r \in DOMAIN fb_calls : fb_calls[r] >= 1}

\* no path is written twice: not by two workers, not by two invocations of
\* the controller, not by a worker and the controller
NoPathWrittenTwice ==
    /\ \A r \in DOMAIN fb_calls : fb_calls[r] <= 1
    /\ \A r1, r2 \in DOMAIN fb_calls : VcfPath(r1) = VcfPath(r2) => r1 = r2
    /\ \A r1, r2 \in DOMAIN fb_calls :
          r1 # r2 => <<sname, r1.key, r1.arm>> # <<sname, r2.key, r2.arm>>
    /\ \A i, j \in 1..Len(calls) : i # j => Artifacts(calls[i]) \cap Artifacts(calls[j]) = {}
    /\ \A i \in 1..Len(calls) : smofname \notin Artifacts(calls[i])
    /\ \A r \in InvokedRegions : VcfPath(r) \notin ControllerArtifacts

\* the path holds the sample name (whole, or split on "_" as in VcfParts)
NamedFromSample(path) ==
    \/ \E i \in 1..Len(path) : path[i] = sname
    \/ \E i \in 1..(Len(path) - 1) : SubSeq(path, i, i + 1) = sname_parts

-----------------------------------------------------------------------------
(* convert_cnvkit_cnv_to_seeds, PrepareAA.py:251-269, line by line. *)

\* largest number of segments of a segment file explored
MaxSegments == 2

\* the first line of a .cns file, which line 259 reads and drops
CnsHeader == "chromosome start end gene log2"

\* the log2 ratios explored, deletions and gains
Log2Ratios == -2..2

\* a line of a .cns file split on tabs (261-263): fields[0:3] are the contig
\* and the span, fields[4] is the log2 ratio; a short span and a long one
CnsLines ==
    [chromosome : {"chr1"}, start : {1000}, end : {2000, 400000}, gene : {"-"},
     log2 : Log2Ratios]

\* a segment file: the header and up to MaxSegments segments
CnsFiles ==
    { <<CnsHeader>> \o rows : rows \in UNION {[1..k -> CnsLines] : k \in 0..MaxSegments} }

RECURSIVE Pow2(_)
Pow2(k) == IF k = 0 THEN 1 ELSE 2 * Pow2(k - 1)

\* 2 ** x of line 264 as the fraction <<numerator, denominator>>
TwoToThe(x) == IF x >= 0 THEN <<Pow2(x), 1>> ELSE <<1, Pow2(-x)>>

\* the line written for one segment, PrepareAA.py:261-266
outline(fields) ==
    [chrom |-> fields.chromosome, start |-> fields.start, end |-> fields.end,
     name |-> "CNVkit", cn |-> TwoToThe(fields.log2 + 1)]

\* the state in which the function is called: a run on a sorted BAM with a
\* segment file, of which the controller's variables do not change in the loop
InitConvert ==
    /\ args = Namespace("sorted_bam", "cnv_bed", <<"in/", "calls", ".cns">>,
                        [slash |-> FALSE, run_AA |-> FALSE, run_AC |-> FALSE,
                         no_filter |-> FALSE, vcf |-> FALSE, ploidy |-> FALSE,
                         rscript_path |-> NoPath, ref |-> "GRCh38", nthreads |-> 1])
    /\ argv = Given(args)
    /\ env = "ok"
    /\ pc = "normalize"
    /\ status = "running"
    /\ metadata_dict = EmptyDict
    /\ sample_info_dict = Put(EmptyDict, "sample_name", sname)
    /\ run_md_dumps = <<>>
    /\ sample_md_dumps = <<>>
    /\ stages = <<"INDEX/QC">>
    /\ calls = <<"check_properly_paired">>
    /\ centromere_dict = get_ref_centromeres(HumanCen("GRCh38"))
    /\ chr_sizes = get_ref_sizes(HumanFai("GRCh38"))
    /\ regions = <<>>
    /\ threadL = NoThreads
    /\ fb_calls = [r \in {} |-> 0]
    /\ vcf_dir = {}
    /\ merged = <<>>
    /\ amplified_interval_bed = NoPath
    /\ cnslines \in CnsFiles
    /\ infile = cnslines
    /\ outfile = <<>>

\* head = next(infile), PrepareAA.py:259
ReadHead ==
    /\ Len(infile) = Len(cnslines) /\ infile # <<>>
    /\ infile' = Tail(infile)
    /\ UNCHANGED <<cnslines, outfile>>
    /\ UNCHANGED controller_vars

\* a loop that keeps the test of line 265 on the default gain threshold 4.5
ConvertLine_gainfilter ==
    /\ Len(infile) < Len(cnslines) /\ infile # <<>>
    /\ LET cn == outline(Head(infile)).cn
       IN  outfile' = IF 2 * cn[1] >= 9 * cn[2]
                      THEN Append(outfile, outline(Head(infile)))
                      ELSE outfile
    /\ infile' = Tail(infile)
    /\ UNCHANGED cnslines
    /\ UNCHANGED controller_vars

\* one iteration of `for line in infile`, PrepareAA.py:260-267 (the test of
\* line 265 is commented out: every line is written)
ConvertLine ==
    /\ Len(infile) < Len(cnslines) /\ infile # <<>>
    /\ outfile' = Append(outfile, outline(Head(infile)))
    /\ infile' = Tail(infile)
    /\ UNCHANGED cnslines
    /\ UNCHANGED controller_vars

NextConvert == ReadHead \/ ConvertLine

ConvertSpec == InitConvert /\ [][NextConvert]_vars

\* the segments read so far
SegmentsRead == IF Len(infile) = Len(cnslines) THEN 0 ELSE Len(cnslines) - Len(infile) - 1

\* C26: convert_cnvkit_cnv_to_seeds writes one seed per segment read, in the
\* order of the file and with the span of the segment, whatever its size and
\* gain, and the copy number of a seed is 2^(log2ratio + 1): 2 for log2 ratio
\* 0 and 4 for log2 ratio 1.
C26_CopyNumberFormula ==
    /\ Len(outfile) = SegmentsRead
    /\ \A i \in 1..Len(outfile) :
          LET seg == cnslines[i + 1]
              x == seg.log2 + 1
              cn == outfile[i].cn
          IN  /\ outfile[i].chrom = seg.chromosome
              /\ outfile[i].start = seg.start /\ outfile[i].end = seg.end
              /\ cn[1] * Pow2(IF x < 0 THEN -x ELSE 0) = cn[2] * Pow2(IF x > 0 THEN x ELSE 0)
              /\ seg.log2 = 0 => cn[1] = 2 * cn[2]
              /\ seg.log2 = 1 => cn[1] = 4 * cn[2]

\* a file of a short segment of log2 ratio 0 and a long one of log2 ratio 1
\* has been converted to the seeds of copy number 2 and 4, in that order
C26_Witness ==
    /\ infile = <<>> /\ Len(cnslines) = 3
    /\ cnslines[2].log2 = 0 /\ cnslines[2].end = 2000
    /\ cnslines[3].log2 = 1
    /\ Len(outfile) = 2
    /\ outfile[1].cn = <<2, 1>> /\ outfile[1].end = 2000
    /\ outfile[2].cn = <<4, 1>>

-----------------------------------------------------------------------------
(* The centromere spans read from the annotation. *)

\* the indices of the centromeric rows of a contig
CentromericRows(rows, chrom) ==
    {i \in 1..Len(rows) : rows[i].chrom = chrom /\ rows[i].label \in {"centromere", "acen"}}

\* the least start and the greatest end of the centromeric rows of each
\* contig, widened once by the padding on either side
PaddedOnce(rows) ==
    [chrom \in {rows[i].chrom : i \in {j \in 1..Len(rows) : rows[j].label \in {"centromere", "acen"}}} |->
        LET rs == CentromericRows(rows, chrom)
            lo == CHOOSE i \in rs : \A j \in rs : rows[i].start <= rows[j].start
            hi == CHOOSE i \in rs : \A j \in rs : rows[i].end >= rows[j].end
        IN  <<rows[lo].start - CentromerePad, rows[hi].end + CentromerePad>>]

\* C27 as stated: for every contig and every number of centromeric rows, the
\* span get_ref_centromeres returns is (least start - 20000, greatest end +
\* 20000), the margin applied exactly once on each side, and the rows that are
\* not centromeric are ignored.
C27_PaddedExactlyOnce ==
    [][pc = "load_ref" =>
          \E rd \in RefInputs(args) :
              /\ chr_sizes' = get_ref_sizes(rd.fai)
              /\ centromere_dict' = PaddedOnce(rd.cen)]_vars

\* what the loop does: a contig of one centromeric row is not padded, and one
\* of k rows is padded k - 1 times (the padded span is kept even where the
\* later row lies inside it)
PaddedOncePerMerge ==
    [][pc = "load_ref" =>
          \E rd \in RefInputs(args) :
              /\ chr_sizes' = get_ref_sizes(rd.fai)
              /\ DOMAIN centromere_dict' = DOMAIN PaddedOnce(rd.cen)
              /\ \A chrom \in DOMAIN centromere_dict' :
                    LET k == Cardinality(CentromericRows(rd.cen, chrom))
                        once == PaddedOnce(rd.cen)[chrom]
                        span == centromere_dict'[chrom]
                    IN  /\ span[1] <= once[1] + CentromerePad
                        /\ span[2] >= once[2] - CentromerePad
                        /\ k = 1 => span = <<once[1] + CentromerePad, once[2] - CentromerePad>>
                        /\ k = 2 => span = once
                        /\ k >= 2 => span[1] <= once[1] /\ span[2] >= once[2]]_vars

-----------------------------------------------------------------------------
(* Termination of the fan-out. *)

\* the runs that reach the fan-out: the first CNV caller without a VCF given;
\* more than one worker is tried on one of the two human references, and
\* more than two on its index in file order
FanOutInit ==
    /\ Init
    /\ args.canvas_dir /\ ~args.vcf
    /\ args.nthreads > 1 => args.ref = "GRCh38"
    /\ args.nthreads > 2 => ~WideRun(args)

\* the steps of such a run up to the merge that follows the joins
FanOutNext ==
    \/ Startup
    \/ RunBwa
    \/ IndexQC
    \/ LoadReference
    \/ CanvasPartition
    \/ SpawnThread
    \/ \E i \in 1..Len(threadL) : WorkerPop(i)
    \/ \E i \in 1..Len(threadL) : WorkerCall(i)
    \/ JoinThreads
    \/ MergeVcfs

\* The scheduling the interpreter and the operating system give: while the
\* controller or a started worker has a step to take, one of them takes a
\* step, and a call of freebayes and gzip returns. No worker is promised a
\* turn of its own.
FanOutFairness == WF_vars(FanOutNext)

FairSpec == FanOutInit /\ [][FanOutNext]_vars /\ FanOutFairness

\* the fan-out has ended: every worker was started and has ended, the list
\* of regions is empty and the controller is past the loop of joins
FanOutEnded ==
    /\ pc = "merge"
    /\ regions = <<>>
    /\ Len(threadL) = args.nthreads
    /\ \A i \in 1..Len(threadL) : threadL[i].state = "done"

\* C28: if every call of freebayes returns, a run that starts the fan-out
\* reaches the end of the loop of joins with every worker ended, for every
\* number of workers, more workers than regions included: a pop on the empty
\* list ends the worker.
C28_FanOutTerminates == (pc = "spawn") ~> FanOutEnded

\* two workers were started for a reference of one region; both have ended,
\* one of them without a call, and the controller is past the joins
C28_Witness ==
    /\ FanOutEnded
    /\ args.nthreads = 2
    /\ Cardinality(DOMAIN fb_calls) = 1
    /\ \A r \in DOMAIN fb_calls : fb_calls[r] = 1

-----------------------------------------------------------------------------
(* The artifacts merge consumes against the regions dispatched. *)

\* the key under which merge finds the artifact of a region (189-190)
RegionKey(r) == r.key \o r.arm

\* C29 as stated: for every reference the partitioner produces regions for,
\* merge looks up no (contig, arm) for which no region was dispatched, and
\* when it has run it has read the artifact of every dispatched region
\* exactly once, the mitochondrial one first as the source of the header.
C29_MergeConsumesDispatched ==
    (MergeBegun /\ pc # "merge") =>
        /\ Range(MergeKeys(args.ref)) \subseteq {RegionKey(r) : r \in DOMAIN fb_calls}
        /\ Range(merged) = {VcfParts(r) : r \in DOMAIN fb_calls}
        /\ \A i, j \in 1..Len(merged) : merged[i] = merged[j] => i = j
        /\ merged # <<>> /\ merged[1] = sname_parts \o <<MitoName(args.ref), "">>

\* the claim on the human references laid out as the merge expects them
MergeConsumesDispatchedHuman ==
    (\E p \in Perms(1..Len(chr_sizes)) :
        /\ Len(chr_sizes) = Len(HumanFai(args.ref))
        /\ chr_sizes = get_ref_sizes(Reorder(HumanFai(args.ref), p))
        /\ centromere_dict = get_ref_centromeres(HumanCen(args.ref)))
    => C29_MergeConsumesDispatched

\* the claim on the mouse reference
MergeConsumesDispatchedMouse == args.ref = "mm10" => C29_MergeConsumesDispatched

-----------------------------------------------------------------------------
(* The order of detection, classification and the run record. *)

\* the positions of a call in the list of calls made
CallsOf(name) == {i \in 1..Len(calls) : calls[i] = name}

\* C30: on the full-pipeline branch CLASSIFY runs only after AMPLICON_DETECT
\* of the same run; with --run_AC and without --run_AA neither runs; the run
\* record is written after the classifier (when it runs) and before the
\* results table, once, and nothing is written to the record after it.
C30_ClassifyAfterDetect ==
    /\ "completed_AA_runs" \notin argv =>
          /\ \A i \in 1..Len(stages) :
                stages[i] = "CLASSIFY" => \E j \in 1..(i - 1) : stages[j] = "AMPLICON_DETECT"
          /\ \A i \in CallsOf("amplicon_classifier") :
                \E j \in CallsOf("AmpliconArchitect") : j < i
          /\ (args.run_AC /\ ~args.run_AA) =>
                /\ \A i \in 1..Len(stages) : stages[i] \notin {"AMPLICON_DETECT", "CLASSIFY"}
                /\ CallsOf("AmpliconArchitect") = {} /\ CallsOf("amplicon_classifier") = {}
                /\ CallsOf("make_results_table") = {}
          /\ \A i \in CallsOf("save_run_metadata") :
                /\ \A j \in CallsOf("AmpliconArchitect") \cup CallsOf("make_input.sh")
                            \cup CallsOf("amplicon_classifier") : j < i
                /\ \A j \in CallsOf("make_results_table") : i < j
          /\ CallsOf("make_results_table") # {} =>
                CallsOf("save_run_metadata") # {} /\ CallsOf("amplicon_classifier") # {}
    /\ run_md_dumps # <<>> =>
          /\ Len(run_md_dumps) = 1
          /\ metadata_dict = run_md_dumps[1]
          /\ CallsOf("save_run_metadata") # {}

\* a run with --run_AA and --run_AC has ended: the detector, the classifier,
\* the dump of the record with the classifier's command, the results table
C30_Witness ==
    /\ ExitedOk
    /\ "completed_AA_runs" \notin argv
    /\ args.run_AA /\ args.run_AC
    /\ \E i \in CallsOf("amplicon_classifier"), j \in CallsOf("save_run_metadata"),
          k \in CallsOf("make_results_table") : i < j /\ j < k
    /\ Len(run_md_dumps) = 1
    /\ run_md_dumps[1]["AC_cmd"] = "amplicon_classifier"
    /\ metadata_dict = run_md_dumps[1]

====
